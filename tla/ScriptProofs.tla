---------------------------- MODULE ScriptProofs ----------------------------
(* What TLAPS proves of the two scripts.  Of GruntPatch, for every number of *)
(* tasks: GruntInv, and from it that the tasks take turns, apply the patch   *)
(* they found and succeed only after they gave it.  Of WebScan, for every set of  *)
(* checks and every number of interrupts: ScanInv, and from it that the      *)
(* counter of skipped checks and the report agree with the files.            *)
EXTENDS GruntPatch, WebScan, FiniteSetTheorems, TLAPS

-----------------------------------------------------------------------------
(* GruntPatch: the inductive invariant                                       *)

Idle == \A t \in Tasks : op[t] = "none"

\* The task started last, and the last one that waits for nothing any more.
Latest == next - 1
Served == IF Idle THEN next - 1 ELSE next - 2

\* While grunt runs one thing goes on: the next task is due; the latest one
\* waits for an answer; its patch process runs; it called done.  Or it has
\* failed, or will never call done.
Turn == turns = 1 /\ procs = <<>> /\ calls = <<>> /\ Idle /\ ready = <<>>

Waiting ==
  /\ turns = 0 /\ procs = <<>> /\ calls = <<>>
  /\ Latest \in Tasks /\ op[Latest] # "none"
  /\ \A t \in Tasks \ {Latest} : op[t] = "none"
  /\ ready = IF op[Latest] \in {"listing", "file"} THEN <<>> ELSE <<Latest>>
  /\ op[Latest] \in {"listing", "file"} => kind[Latest] = "none"

Patching ==
  /\ turns = 0 /\ Len(procs) = 1 /\ calls = <<>> /\ Idle /\ ready = <<>>
  /\ Latest \in Tasks /\ procs[1].task = Latest

Exited ==
  /\ turns = 0 /\ procs = <<>> /\ Idle /\ ready = <<>>
  /\ Latest \in Tasks /\ calls = <<Done(Latest, TRUE)>>

Lost ==
  /\ turns = 0 /\ procs = <<>> /\ Idle
  /\ \A k \in DOMAIN calls : ~calls[k].ok

PhaseInv ==
  /\ ended = "no" => Turn \/ Waiting \/ Patching \/ Exited \/ Lost
  /\ ended # "no" => Idle /\ Len(procs) <= 1

\* The prefix grows at most once for each task that is through; the names with
\* a longer prefix were never written to.
FileInv ==
  /\ depth <= Served
  /\ \A k \in DOMAIN files : k > File(depth) => files[k] = Missing
  /\ \A k \in DOMAIN procs :
       procs[k].read = Unread => files[procs[k].file] \in {procs[k].patch, Missing}

Empty == ~opts.debug => \A k \in DOMAIN files : files[k] = Missing

\* With one patch in src/ every task before the latest had its patch given, and
\* the temporary file is not there, or it is the patch of the latest.
ServedInv ==
  OneInSrc /\ ended = "no" =>
    /\ Turn \/ Waiting \/ Exited => 1 .. Served \subseteq given /\ Empty
    /\ Patching => /\ 1 .. Latest - 1 \subseteq given
                   /\ procs[1].read = Unread => files[procs[1].file] = procs[1].patch
                   /\ procs[1].read # Unread => Latest \in given
                   /\ \A k \in DOMAIN files : k > 1 => files[k] = Missing

GruntInv == TypeOK /\ PhaseInv /\ FileInv /\ ServedInv /\ OwnPatch /\ FinishedMeansGiven

-----------------------------------------------------------------------------

LEMMA OneInSrcKept ==
  ASSUME depth' = depth
  PROVE  OneInSrc' <=> OneInSrc
BY DEF OneInSrc

\* The process a task starts for patch p once its listener is through.
Process(t, p) ==
  [task |-> t, patch |-> p, file |-> File(DepthAfter(p, 1)), read |-> Unread]

LEMMA EmitOne ==
  ASSUME NEW t \in Tasks, NEW p \in Tasks, NEW fs, procs = <<>>, EmitReady(p, <<t>>, fs)
  PROVE  /\ ready' = <<>> /\ depth' = DepthAfter(p, 1)
         /\ \/ procs' = <<Process(t, p)>> /\ Through(p, <<t>>, fs) = 1
            \/ procs' = <<>> /\ Through(p, <<t>>, fs) = 0
<1> DEFINE stuck == {k \in 1 .. 1 : opts.mappings /\ fs[File(DepthAfter(p, k))] = Missing}
           n == Through(p, <<t>>, fs)
<1>1. Len(<<t>>) = 1 /\ <<t>>[1] = t
  OBVIOUS
<1>2. stuck = {} \/ stuck = {1}
  OBVIOUS
<1>3. n = IF stuck = {} THEN 1 ELSE (CHOOSE k \in stuck : \A m \in stuck : k <= m) - 1
  BY <1>1 DEF Through
<1>4. n = 1 \/ n = 0
  <2>1. CASE stuck = {1}
    <3>1. (CHOOSE k \in stuck : \A m \in stuck : k <= m) = 1
      BY <2>1
    <3> QED
      BY <1>3, <2>1, <3>1
  <2> QED
    BY <1>2, <1>3, <2>1
<1> HIDE DEF n
<1>5. /\ procs' = procs \o Started(p, <<t>>, n)
      /\ ready' = SubSeq(<<t>>, n + 2, 1)
      /\ depth' = DepthAfter(p, IF n < 1 THEN n + 1 ELSE n)
  BY <1>1 DEF EmitReady, n
<1>6. depth' = DepthAfter(p, 1)
  BY <1>4, <1>5
<1>7. ready' = <<>>
  BY <1>4, <1>5
<1>8. CASE n = 1
  <2>1. Started(p, <<t>>, 1) = <<Process(t, p)>>
    BY <1>1 DEF Started, Process
  <2>2. procs' = <<Process(t, p)>>
    BY <1>5, <1>8, <2>1
  <2> QED
    BY <1>6, <1>7, <1>8, <2>2 DEF n
<1>9. CASE n = 0
  <2>1. Started(p, <<t>>, 0) = <<>>
    BY DEF Started
  <2>2. procs' = <<>>
    BY <1>5, <1>9, <2>1
  <2> QED
    BY <1>6, <1>7, <1>9, <2>2 DEF n
<1> QED
  BY <1>4, <1>8, <1>9

\* What a patch p that arrived makes of the run: its process starts, or nothing
\* can go on.
NewFiles(p) == [files EXCEPT ![File(depth)] = p]

Starts(t, p) ==
  /\ ready' = <<>> /\ procs' = <<Process(t, p)>> /\ calls' = <<>> /\ ended' = "no"
  /\ files' = NewFiles(p) /\ depth' = DepthAfter(p, 1)

Breaks(t, p) ==
  /\ ready' \in {<<>>, <<t>>} /\ procs' = <<>>
  /\ calls' \in {<<>>, <<Done(t, FALSE)>>} /\ ended' \in {"no", "fatal"}
  /\ \/ files' = files /\ depth' = depth
     \/ files' = NewFiles(p) /\ depth' = DepthAfter(p, 1)

\* Task t is in progress, no listener but its own is there.
InHand(t) ==
  /\ t \in Tasks /\ ended = "no" /\ calls = <<>> /\ procs = <<>> /\ Served = t - 1
  /\ OneInSrc => 1 .. t - 1 \subseteq given /\ Empty

\* A patch that a task finds was brought by a task; it is another one's only if
\* --debug or a second prefix left it there.
LEMMA FoundPatch ==
  ASSUME TypeOK, NEW t, InHand(t), NEW p \in Offered(t)
  PROVE  p \in Tasks /\ (p # t => opts.debug \/ depth > 1)
<1>1. t \in Tasks /\ (OneInSrc => Empty)
  BY DEF InHand
<1>2. files \in [1 .. NTasks + 1 -> 0 .. NTasks] /\ NTasks \in Nat /\ depth \in Nat
  BY NTasksAssumption DEF TypeOK
<1>3. CASE p # t
  <2>1. PICK k \in DOMAIN files : files[k] = p /\ files[k] # Missing
    BY <1>3 DEF Offered
  <2>2. p \in Tasks
    BY <1>2, <2>1 DEF Missing, Tasks
  <2>3. ~Empty \/ opts.debug
    BY <2>1 DEF Empty
  <2> QED
    BY <1>1, <1>2, <2>2, <2>3 DEF OneInSrc
<1> QED
  BY <1>1, <1>3

LEMMA LocalShape ==
  ASSUME TypeOK, NEW t, InHand(t), ready = <<>>, NEW how \in {"task", "callback", "promise"},
         LocalPatch(t, how)
  PROVE  /\ fail' = Append(fail, t)
         /\ \E p \in Offered(t) : Starts(t, p) \/ Breaks(t, p)
<1>1. t \in Tasks /\ ended = "no" /\ calls = <<>> /\ procs = <<>> /\ t \in Offered(t)
  BY DEF InHand, Offered
<1>2. Append(ready, t) = <<t>> /\ Append(calls, Done(t, FALSE)) = <<Done(t, FALSE)>>
  BY <1>1
<1>3. Threw(how, t) => /\ calls' \in {<<>>, <<Done(t, FALSE)>>}
                       /\ ended' \in {"no", "fatal"}
  BY <1>1, <1>2 DEF Threw
<1>4. CASE ready' = <<t>> /\ Threw(how, t) /\ UNCHANGED <<depth, files, procs>>
  <2>1. Breaks(t, t)
    BY <1>1, <1>3, <1>4 DEF Breaks
  <2> QED
    BY <1>1, <2>1 DEF LocalPatch
<1>5. ASSUME NEW p \in Offered(t), files' = NewFiles(p), EmitReady(p, <<t>>, NewFiles(p)),
             IF Through(p, <<t>>, NewFiles(p)) < 1 THEN Threw(how, t)
             ELSE UNCHANGED <<calls, ended>>
      PROVE  Starts(t, p) \/ Breaks(t, p)
  <2>1. /\ ready' = <<>> /\ depth' = DepthAfter(p, 1)
        /\ \/ procs' = <<Process(t, p)>> /\ Through(p, <<t>>, NewFiles(p)) = 1
           \/ procs' = <<>> /\ Through(p, <<t>>, NewFiles(p)) = 0
    BY <1>1, <1>5, EmitOne, FoundPatch
  <2>2. CASE procs' = <<Process(t, p)>> /\ Through(p, <<t>>, NewFiles(p)) = 1
    <3>1. calls' = <<>> /\ ended' = "no"
      BY <1>1, <1>5, <2>2
    <3> QED
      BY <1>5, <2>1, <2>2, <3>1 DEF Starts
  <2>3. CASE procs' = <<>> /\ Through(p, <<t>>, NewFiles(p)) = 0
    <3>1. Threw(how, t)
      BY <1>5, <2>3
    <3> QED
      BY <1>3, <1>5, <2>1, <2>3, <3>1 DEF Breaks
  <2> QED
    BY <2>1, <2>2, <2>3
<1>6. Len(<<t>>) = 1
  OBVIOUS
<1> QED
  BY <1>2, <1>4, <1>5, <1>6 DEF LocalPatch, NewFiles

LEMMA FetchedShape ==
  ASSUME NEW t, InHand(t), ready = <<t>>, files' = NewFiles(t),
         EmitReady(t, ready, NewFiles(t)), UNCHANGED calls,
         ended' = IF Through(t, ready, NewFiles(t)) < Len(ready) THEN "fatal" ELSE "no"
  PROVE  Starts(t, t) \/ Breaks(t, t)
<1>1. t \in Tasks /\ calls = <<>> /\ procs = <<>> /\ Len(ready) = 1
  BY DEF InHand
<1>2. /\ ready' = <<>> /\ depth' = DepthAfter(t, 1)
      /\ \/ procs' = <<Process(t, t)>> /\ Through(t, ready, NewFiles(t)) = 1
         \/ procs' = <<>> /\ Through(t, ready, NewFiles(t)) = 0
  BY <1>1, EmitOne
<1> QED
  BY <1>1, <1>2 DEF Starts, Breaks

\* The prefix and the files after a patch arrived.
LEMMA ArrivalFiles ==
  ASSUME NEW t, InHand(t), TypeOK, FileInv, NEW p \in Tasks,
         depth' = DepthAfter(p, 1), files' = NewFiles(p)
  PROVE  /\ depth' \in Nat /\ depth <= depth' /\ depth' <= t
         /\ File(depth') \in 1 .. NTasks + 1 /\ File(depth) \in 1 .. NTasks + 1
         /\ files' \in [1 .. NTasks + 1 -> 0 .. NTasks]
         /\ \A k \in 1 .. NTasks + 1 : k > File(depth') => files'[k] = Missing
         /\ files'[File(depth')] \in {p, Missing}
         /\ depth' <= 1 => files'[File(depth')] = p
<1>1. /\ t \in 1 .. NTasks /\ p \in 1 .. NTasks /\ NTasks \in Nat
      /\ depth \in Nat /\ depth <= t - 1
      /\ files \in [1 .. NTasks + 1 -> 0 .. NTasks]
      /\ src \in [1 .. NTasks -> BOOLEAN]
  BY NTasksAssumption DEF InHand, TypeOK, FileInv, Tasks
<1>2. \A k \in 1 .. NTasks + 1 : k > File(depth) => files[k] = Missing
  BY <1>1 DEF FileInv
<1>3. depth' = IF src[p] THEN depth + 1 ELSE depth
  BY DEF DepthAfter
<1>4. depth' \in Nat /\ depth <= depth' /\ depth' <= t
  BY <1>1, <1>3
<1>8. /\ File(depth') \in 1 .. NTasks + 1 /\ File(depth) \in 1 .. NTasks + 1
      /\ File(depth) <= File(depth')
      /\ depth' <= 1 => File(depth') = File(depth)
  BY <1>1, <1>3, <1>4 DEF File
<1>9. files' = [files EXCEPT ![File(depth)] = p]
  BY DEF NewFiles
<1>10. files' \in [1 .. NTasks + 1 -> 0 .. NTasks]
  <2>1. p \in 0 .. NTasks
    BY <1>1
  <2> QED
    BY <1>1, <1>8, <1>9, <2>1
<1>11. \A k \in 1 .. NTasks + 1 : k > File(depth') => files'[k] = Missing
  BY <1>1, <1>2, <1>8, <1>9
<1>12. files'[File(depth')] \in {p, Missing} /\ (depth' <= 1 => files'[File(depth')] = p)
  <2>1. CASE File(depth') = File(depth)
    BY <1>1, <1>8, <1>9, <2>1
  <2>2. CASE File(depth') # File(depth)
    <3>1. File(depth') > File(depth)
      BY <1>1, <1>8, <2>2
    <3> QED
      BY <1>1, <1>2, <1>8, <1>9, <2>2, <3>1
  <2> QED
    BY <2>1, <2>2
<1> QED
  BY <1>4, <1>8, <1>10, <1>11, <1>12

LEMMA ArrivalStep ==
  ASSUME NEW t, InHand(t), GruntInv, NEW p \in Offered(t),
         p # t => kind[t] \in {"none", "local"}, Starts(t, p) \/ Breaks(t, p),
         next' = t + 1, turns' = 0, Idle', UNCHANGED <<inputs, given>>,
         op' \in [Tasks -> {"none", "listing", "file", "ticket", "attachment", "fetching"}],
         fail' \in Seq(Tasks)
  PROVE  GruntInv'
<1>1. /\ t \in Tasks /\ t \in 1 .. NTasks /\ NTasks \in Nat /\ next' - 1 = t
      /\ TypeOK /\ FileInv /\ kind' = kind /\ src' = src /\ opts' = opts /\ given' = given
  BY NTasksAssumption DEF InHand, GruntInv, Tasks, inputs
<1>2. p \in Tasks /\ (p # t => opts.debug \/ depth > 1)
  BY <1>1, FoundPatch
<1>3. ASSUME depth' = DepthAfter(p, 1), files' = NewFiles(p)
      PROVE  /\ depth' \in Nat /\ depth <= depth' /\ depth' <= t
             /\ File(depth') \in 1 .. NTasks + 1
             /\ files' \in [1 .. NTasks + 1 -> 0 .. NTasks]
             /\ \A k \in 1 .. NTasks + 1 : k > File(depth') => files'[k] = Missing
             /\ files'[File(depth')] \in {p, Missing}
             /\ depth' <= 1 => files'[File(depth')] = p
  BY <1>1, <1>2, <1>3, ArrivalFiles
<1>4. ASSUME depth' = depth, files' = files
      PROVE  /\ depth' \in Nat /\ depth <= depth' /\ depth' <= t
             /\ files' \in [1 .. NTasks + 1 -> 0 .. NTasks]
             /\ \A k \in 1 .. NTasks + 1 : k > File(depth') => files'[k] = Missing
  <2>1. Served = t - 1
    BY DEF InHand
  <2>2. depth \in Nat /\ depth <= t - 1 /\ files \in [1 .. NTasks + 1 -> 0 .. NTasks]
    BY <1>1, <2>1 DEF TypeOK, FileInv
  <2> QED
    BY <1>1, <1>4, <2>2 DEF FileInv
<1>5. /\ depth' \in Nat /\ depth <= depth' /\ depth' <= t /\ depth \in Nat
      /\ files' \in [1 .. NTasks + 1 -> 0 .. NTasks]
      /\ \A k \in 1 .. NTasks + 1 : k > File(depth') => files'[k] = Missing
  <2>1. depth \in Nat
    BY <1>1 DEF TypeOK
  <2>2. \/ depth' = DepthAfter(p, 1) /\ files' = NewFiles(p)
        \/ depth' = depth /\ files' = files
    BY DEF Starts, Breaks
  <2>3. CASE depth' = DepthAfter(p, 1) /\ files' = NewFiles(p)
    BY <1>3, <2>1, <2>3
  <2>4. CASE depth' = depth /\ files' = files
    BY <1>4, <2>1, <2>4
  <2> QED
    BY <2>2, <2>3, <2>4
<1>6. Served' = t /\ Latest' = t
  BY <1>1 DEF Served, Latest
<1>7. /\ kind' \in [Tasks -> Kinds] /\ src' \in [Tasks -> BOOLEAN]
      /\ opts' \in [debug : BOOLEAN, mappings : BOOLEAN] /\ given' \subseteq Tasks
      /\ turns' \in 0 .. 1 /\ next' \in 1 .. NTasks + 1 /\ depth' \in 0 .. NTasks
      /\ ready' \in Seq(Tasks) /\ calls' \in Seq([task : Tasks, ok : BOOLEAN])
      /\ ended' \in {"no", "fatal"}
  <2>1. <<>> \in Seq(Tasks) /\ <<t>> \in Seq(Tasks)
    BY <1>1
  <2>2. /\ <<>> \in Seq([task : Tasks, ok : BOOLEAN])
        /\ <<Done(t, FALSE)>> \in Seq([task : Tasks, ok : BOOLEAN])
    BY <1>1 DEF Done
  <2>3. depth' \in 0 .. NTasks /\ next' \in 1 .. NTasks + 1
    BY <1>1, <1>5
  <2>4. /\ ready' \in {<<>>, <<t>>} /\ calls' \in {<<>>, <<Done(t, FALSE)>>}
        /\ ended' \in {"no", "fatal"}
    BY DEF Starts, Breaks
  <2>5. /\ kind' \in [Tasks -> Kinds] /\ src' \in [Tasks -> BOOLEAN]
        /\ opts' \in [debug : BOOLEAN, mappings : BOOLEAN] /\ given' \subseteq Tasks
    BY <1>1 DEF TypeOK, inputs
  <2>6. ready' \in Seq(Tasks) /\ calls' \in Seq([task : Tasks, ok : BOOLEAN])
    BY <2>1, <2>2, <2>4
  <2> QED
    BY <2>3, <2>4, <2>5, <2>6
<1>8. FinishedMeansGiven'
  BY <1>7 DEF FinishedMeansGiven
<1>9. CASE Starts(t, p)
  <2>1. /\ procs' = <<Process(t, p)>> /\ Len(procs') = 1 /\ procs'[1] = Process(t, p)
        /\ DOMAIN procs' = {1} /\ ended' = "no" /\ ready' = <<>> /\ calls' = <<>>
    BY <1>9 DEF Starts
  <2>2. Process(t, p) = [task |-> t, patch |-> p, file |-> File(depth'), read |-> Unread]
    BY <1>9 DEF Process, Starts
  <2>3. /\ File(depth') \in 1 .. NTasks + 1 /\ files'[File(depth')] \in {p, Missing}
        /\ depth' <= 1 => files'[File(depth')] = p
    BY <1>3, <1>9 DEF Starts
  <2>4. procs' \in Seq(Processes)
    <3>1. Process(t, p) \in Processes
      <4>1. Unread \in 0 .. Unread
        BY <1>1 DEF Unread
      <4> QED
        BY <1>1, <1>2, <2>2, <2>3, <4>1 DEF Processes
    <3> QED
      BY <2>1, <3>1
  <2>5. TypeOK'
    BY <1>5, <1>7, <2>4 DEF TypeOK
  <2>6. Patching' /\ ~Turn' /\ ~Waiting' /\ ~Exited'
    <3>1. procs'[1].task = t
      BY <2>1, <2>2
    <3> QED
      BY <1>1, <1>6, <2>1, <3>1 DEF Patching, Turn, Waiting, Exited
  <2>7. PhaseInv'
    BY <2>1, <2>6 DEF PhaseInv
  <2>8. FileInv'
    <3>1. \A k \in DOMAIN procs' :
            procs'[k].read = Unread => files'[procs'[k].file] \in {procs'[k].patch, Missing}
      <4> SUFFICES ASSUME NEW k \in DOMAIN procs'
                   PROVE  files'[procs'[k].file] \in {procs'[k].patch, Missing}
        OBVIOUS
      <4>1. procs'[k].file = File(depth') /\ procs'[k].patch = p
        BY <2>1, <2>2
      <4> QED
        BY <2>3, <4>1
    <3> QED
      BY <1>5, <1>6, <3>1 DEF FileInv
  <2>9. ServedInv'
    <3> SUFFICES ASSUME depth' <= 1 PROVE ServedInv'
      BY DEF ServedInv, OneInSrc
    <3>1. 1 .. t - 1 \subseteq given' /\ files'[procs'[1].file] = procs'[1].patch
      <4>1. OneInSrc
        BY <1>5 DEF OneInSrc
      <4>2. 1 .. t - 1 \subseteq given
        BY <4>1 DEF InHand
      <4>3. procs'[1].file = File(depth') /\ procs'[1].patch = p
        BY <2>1, <2>2
      <4> QED
        BY <1>1, <2>3, <4>2, <4>3
    <3>2. \A k \in DOMAIN files' : k > 1 => files'[k] = Missing
      <4>1. File(depth') = 1
        BY <1>5 DEF File
      <4> QED
        BY <1>5, <4>1
    <3>3. procs'[1].read = Unread
      BY <2>1, <2>2
    <3> QED
      BY <1>6, <2>6, <3>1, <3>2, <3>3 DEF ServedInv
  <2>10. OwnPatch'
    <3> SUFFICES ASSUME NEW k \in DOMAIN procs'
                 PROVE  /\ procs'[k].read \in {procs'[k].patch, Missing', Unread'}
                        /\ procs'[k].patch # procs'[k].task =>
                             /\ kind'[procs'[k].task] \in {"none", "local"}
                             /\ opts'.debug \/ depth' > 1
      BY DEF OwnPatch
    <3>1. procs'[k].read = Unread /\ procs'[k].patch = p /\ procs'[k].task = t
      BY <2>1, <2>2
    <3>2. Unread' = Unread
      BY DEF Unread
    <3>3. opts.debug \/ depth > 1 => opts'.debug \/ depth' > 1
      BY <1>1, <1>5
    <3> QED
      BY <1>1, <1>2, <3>1, <3>2, <3>3
  <2> QED
    BY <1>8, <2>5, <2>7, <2>8, <2>9, <2>10 DEF GruntInv
<1>10. CASE Breaks(t, p)
  <2>1. procs' = <<>> /\ calls' \in {<<>>, <<Done(t, FALSE)>>}
    BY <1>10 DEF Breaks
  <2>2. TypeOK'
    <3>1. procs' \in Seq(Processes)
      BY <2>1
    <3> QED
      BY <1>5, <1>7, <3>1 DEF TypeOK
  <2>3. Lost' /\ ~Turn' /\ ~Waiting' /\ ~Exited' /\ ~Patching'
    <3>1. \A k \in DOMAIN calls' : ~calls'[k].ok
      BY <2>1 DEF Done
    <3>2. calls' # <<Done(Latest', TRUE)>>
      BY <2>1, <3>1 DEF Done
    <3>3. Lost'
      BY <2>1, <3>1 DEF Lost
    <3>4. ~Turn' /\ ~Exited'
      <4>1. ~Turn'
        BY DEF Turn
      <4>2. ~Exited'
        BY <3>2 DEF Exited, Done
      <4> QED
        BY <4>1, <4>2
    <3>5. ~Waiting' /\ ~Patching'
      BY <1>1, <1>6, <2>1 DEF Waiting, Patching, Idle
    <3> QED
      BY <3>3, <3>4, <3>5
  <2>4. PhaseInv'
    BY <2>1, <2>3 DEF PhaseInv
  <2>5. FileInv'
    BY <1>5, <1>6, <2>1 DEF FileInv
  <2>6. ServedInv' /\ OwnPatch'
    BY <2>1, <2>3 DEF ServedInv, OwnPatch
  <2> QED
    BY <1>8, <2>2, <2>4, <2>5, <2>6 DEF GruntInv
<1> QED
  BY <1>9, <1>10

LEMMA HandFiles ==
  ASSUME NEW t, InHand(t), GruntInv, UNCHANGED <<depth, files>>,
         procs' = <<>>, Served' \in {t - 1, t}
  PROVE  FileInv'
<1>1. /\ t \in 1 .. NTasks /\ NTasks \in Nat /\ depth' = depth /\ files' = files
      /\ depth \in Nat /\ FileInv /\ Served = t - 1
  BY NTasksAssumption DEF InHand, GruntInv, TypeOK, Tasks
<1> QED
  BY <1>1 DEF FileInv

Ops == {"none", "listing", "file", "ticket", "attachment", "fetching"}

\* The task in hand waits for an answer.
LEMMA WaitStep ==
  ASSUME NEW t, InHand(t), GruntInv, next' = t + 1, turns' = 0, ended' = "no",
         UNCHANGED <<inputs, depth, files, procs, given, calls>>,
         NEW o \in Ops \ {"none"}, op' = [u \in Tasks |-> IF u = t THEN o ELSE "none"],
         ready' = IF o \in {"listing", "file"} THEN <<>> ELSE <<t>>, fail' \in Seq(Tasks),
         o \in {"listing", "file"} => kind[t] = "none"
  PROVE  GruntInv'
<1>1. /\ t \in Tasks /\ t \in 1 .. NTasks /\ NTasks \in Nat /\ next' - 1 = t
      /\ procs' = <<>> /\ calls' = <<>> /\ TypeOK
  BY NTasksAssumption DEF InHand, GruntInv, Tasks
<1>2. op'[t] = o /\ \A u \in Tasks \ {t} : op'[u] = "none"
  BY <1>1
<1>3. ~Idle' /\ Served' = t - 1 /\ Latest' = t
  BY <1>1, <1>2 DEF Idle, Ops, Served, Latest
<1>4. TypeOK'
  <2>1. next' \in 1 .. NTasks + 1 /\ turns' \in 0 .. 1
    BY <1>1
  <2>2. op' \in [Tasks -> Ops]
    BY DEF Ops
  <2>3. ready' \in Seq(Tasks)
    BY <1>1
  <2> QED
    BY <1>1, <2>1, <2>2, <2>3 DEF TypeOK, inputs, Ops
<1>5. Waiting'
  BY <1>1, <1>2, <1>3 DEF Waiting, Ops, inputs
<1>6. PhaseInv'
  BY <1>5 DEF PhaseInv
<1>7. FileInv'
  BY <1>1, <1>3, HandFiles
<1>8. ServedInv'
  <2>1. ~Patching'
    BY <1>3 DEF Patching
  <2>2. OneInSrc' => 1 .. t - 1 \subseteq given' /\ Empty'
    BY OneInSrcKept DEF InHand, Empty, inputs
  <2> QED
    BY <1>3, <2>1, <2>2 DEF ServedInv
<1>9. OwnPatch' /\ FinishedMeansGiven'
  BY <1>1 DEF OwnPatch, FinishedMeansGiven
<1> QED
  BY <1>4, <1>6, <1>7, <1>8, <1>9 DEF GruntInv

\* Nothing can go on after the task in hand.
LEMMA LoseStep ==
  ASSUME NEW t, InHand(t), GruntInv, next' = t + 1, turns' = 0, ended' \in {"no", "fatal"},
         UNCHANGED <<inputs, depth, files, procs, given>>, op' = [u \in Tasks |-> "none"],
         calls' \in Seq([task : Tasks, ok : BOOLEAN]), \A k \in DOMAIN calls' : ~calls'[k].ok,
         ready' \in Seq(Tasks), fail' \in Seq(Tasks)
  PROVE  GruntInv'
<1>1. /\ t \in Tasks /\ t \in 1 .. NTasks /\ NTasks \in Nat /\ next' - 1 = t
      /\ procs' = <<>> /\ TypeOK
  BY NTasksAssumption DEF InHand, GruntInv, Tasks
<1>2. Idle' /\ Served' = t /\ Latest' = t
  BY <1>1 DEF Idle, Served, Latest
<1>3. TypeOK'
  <2>1. next' \in 1 .. NTasks + 1 /\ turns' \in 0 .. 1
    BY <1>1
  <2>2. op' \in [Tasks -> Ops]
    BY DEF Ops
  <2> QED
    BY <1>1, <2>1, <2>2 DEF TypeOK, inputs, Ops
<1>4. Lost' /\ ~Turn' /\ ~Waiting' /\ ~Exited' /\ ~Patching'
  <2>1. Lost'
    BY <1>1, <1>2 DEF Lost
  <2>2. calls' # <<Done(Latest', TRUE)>>
    BY DEF Done
  <2>3. ~Exited'
    BY <2>2 DEF Exited, Done
  <2>4. ~Turn' /\ ~Waiting' /\ ~Patching'
    BY <1>1, <1>2 DEF Turn, Waiting, Patching, Idle
  <2> QED
    BY <2>1, <2>3, <2>4
<1>5. PhaseInv'
  BY <1>1, <1>2, <1>4 DEF PhaseInv
<1>6. FileInv'
  BY <1>1, <1>2, HandFiles
<1>7. ServedInv' /\ OwnPatch' /\ FinishedMeansGiven'
  BY <1>1, <1>4 DEF ServedInv, OwnPatch, FinishedMeansGiven
<1> QED
  BY <1>3, <1>5, <1>6, <1>7 DEF GruntInv

-----------------------------------------------------------------------------
(* The actions                                                             *)

LEMMA EmitFailShape ==
  ASSUME fail \in Seq(Tasks), calls = <<>>, EmitFail(fail)
  PROVE  /\ fail' \in Seq(Tasks) /\ calls' \in Seq([task : Tasks, ok : BOOLEAN])
         /\ \A k \in DOMAIN calls' : ~calls'[k].ok
<1> DEFINE n == Len(fail)  new == [k \in 1 .. n |-> Done(fail[k], FALSE)]
<1>1. n \in Nat /\ \A k \in 1 .. n : fail[k] \in Tasks
  OBVIOUS
<1>2. /\ new \in Seq([task : Tasks, ok : BOOLEAN])
      /\ DOMAIN new = 1 .. n /\ \A k \in 1 .. n : ~new[k].ok
  BY <1>1 DEF Done
<1>3. calls' = calls \o new /\ fail' = <<>>
  BY DEF EmitFail
<1> HIDE DEF new
<1>4. calls' = new
  BY <1>2, <1>3
<1> QED
  BY <1>1, <1>2, <1>3, <1>4

\* A turn belongs to the next task, an operation to the latest one.
LEMMA TurnInHand ==
  ASSUME GruntInv, ended = "no", turns > 0
  PROVE  /\ Turn
         /\ next \in Tasks => InHand(next)
<1>1. Turn
  <2>1. ~(turns = 0)
    OBVIOUS
  <2>2. ~Waiting /\ ~Patching /\ ~Exited /\ ~Lost
    BY <2>1 DEF Waiting, Patching, Exited, Lost
  <2> QED
    BY <2>2 DEF GruntInv, PhaseInv
<1>2. Served = next - 1
  BY <1>1 DEF Turn, Served
<1>3. OneInSrc => 1 .. Served \subseteq given /\ Empty
  BY <1>1 DEF GruntInv, ServedInv
<1> QED
  BY <1>1, <1>2, <1>3 DEF InHand, Turn

LEMMA OpInHand ==
  ASSUME GruntInv, ended = "no", NEW t \in Tasks, op[t] # "none"
  PROVE  /\ InHand(t) /\ next = t + 1 /\ turns = 0
         /\ ready = IF op[t] \in {"listing", "file"} THEN <<>> ELSE <<t>>
         /\ op[t] \in {"listing", "file"} => kind[t] = "none"
         /\ \A o \in Ops : [op EXCEPT ![t] = o] = [u \in Tasks |-> IF u = t THEN o ELSE "none"]
         /\ [op EXCEPT ![t] = "none"] = [u \in Tasks |-> "none"]
<1>1. ~Idle
  BY DEF Idle
<1>2. Waiting
  BY <1>1 DEF GruntInv, PhaseInv, Turn, Patching, Exited, Lost
<1>3. t = Latest /\ op \in [Tasks -> Ops] /\ next \in Nat /\ t \in Nat
  BY <1>2, NTasksAssumption DEF Waiting, GruntInv, TypeOK, Ops, Tasks
<1>4. Served = t - 1 /\ next = t + 1
  BY <1>1, <1>3 DEF Served, Latest
<1>5. OneInSrc => 1 .. Served \subseteq given /\ Empty
  BY <1>2 DEF GruntInv, ServedInv
<1>6. InHand(t)
  BY <1>2, <1>4, <1>5 DEF InHand, Waiting
<1>7. \A u \in Tasks \ {t} : op[u] = "none"
  BY <1>2, <1>3 DEF Waiting
<1>8. \A o \in Ops : [op EXCEPT ![t] = o] = [u \in Tasks |-> IF u = t THEN o ELSE "none"]
  BY <1>3, <1>7
<1>9. [op EXCEPT ![t] = "none"] = [u \in Tasks |-> "none"]
  BY <1>3, <1>7
<1> QED
  BY <1>2, <1>3, <1>4, <1>6, <1>8, <1>9 DEF Waiting

\* The file of the task in hand is copied, or its name is taken for a ticket.
LEMMA ApplyFileStep ==
  ASSUME GruntInv, ended = "no", NEW t \in Tasks, op[t] \in {"listing", "file"},
         NEW how \in {"callback", "promise"}, ApplyFile(t, how),
         UNCHANGED <<inputs, turns, next, given>>
  PROVE  GruntInv'
<1>1. /\ InHand(t) /\ next' = t + 1 /\ turns' = 0 /\ ready = <<>>
      /\ [op EXCEPT ![t] = "ticket"] = [u \in Tasks |-> IF u = t THEN "ticket" ELSE "none"]
      /\ [op EXCEPT ![t] = "none"] = [u \in Tasks |-> "none"]
      /\ fail \in Seq(Tasks) /\ kind[t] = "none" /\ TypeOK
  BY OpInHand DEF Ops, GruntInv, TypeOK
<1>2. Append(fail, t) \in Seq(Tasks) /\ Append(ready, t) = <<t>>
  BY <1>1
<1>3. CASE op' = [op EXCEPT ![t] = "none"] /\ LocalPatch(t, how)
  <2>1. PICK p \in Offered(t) : fail' = Append(fail, t) /\ (Starts(t, p) \/ Breaks(t, p))
    BY <1>1, <1>3, LocalShape
  <2>2. Idle' /\ op' \in [Tasks -> {"none", "listing", "file", "ticket", "attachment", "fetching"}]
    BY <1>1, <1>3 DEF Idle
  <2> QED
    BY <1>1, <1>2, <2>1, <2>2, ArrivalStep
<1>4. CASE /\ op' = [op EXCEPT ![t] = "ticket"] /\ Listen(t)
           /\ UNCHANGED <<depth, files, procs, calls, ended>>
  <2>1. ready' = <<t>> /\ fail' \in Seq(Tasks)
    BY <1>2, <1>4 DEF Listen
  <2>2. "ticket" \in Ops \ {"none"} /\ "ticket" \notin {"listing", "file"}
    BY DEF Ops
  <2> QED
    BY <1>1, <1>4, <2>1, <2>2, WaitStep
<1> QED
  BY <1>3, <1>4 DEF ApplyFile

LEMMA RunTaskStep ==
  ASSUME GruntInv, RunTask
  PROVE  GruntInv'
<1> DEFINE t == next
<1>1. /\ Turn /\ InHand(t) /\ t \in Tasks /\ ended = "no"
      /\ next' = t + 1 /\ turns' = 0 /\ UNCHANGED <<inputs, given>>
  BY TurnInHand DEF RunTask, Turn
<1>2. /\ fail \in Seq(Tasks) /\ op = [u \in Tasks |-> "none"] /\ kind \in [Tasks -> Kinds]
      /\ ready = <<>> /\ t \in Nat /\ TypeOK
  BY <1>1, NTasksAssumption DEF GruntInv, TypeOK, Turn, Idle, Tasks
<1>3. Append(fail, t) \in Seq(Tasks) /\ Append(ready, t) = <<t>>
  BY <1>1, <1>2
<1>4. CASE kind[t] = "none"
  <2>1. FindFile(t)
    BY <1>4 DEF RunTask
  <2>2. op' = [u \in Tasks |-> IF u = t THEN "listing" ELSE "none"]
    BY <1>2, <2>1 DEF FindFile
  <2>3. "listing" \in Ops \ {"none"}
    BY DEF Ops
  <2> HIDE DEF t
  <2> QED
    BY <1>1, <1>2, <1>4, <2>1, <2>2, <2>3, WaitStep DEF FindFile
<1>5. CASE kind[t] = "local"
  <2>1. LocalPatch(t, "task") /\ op' = op
    BY <1>5 DEF RunTask
  <2> HIDE DEF t
  <2>2. PICK p \in Offered(t) : fail' = Append(fail, t) /\ (Starts(t, p) \/ Breaks(t, p))
    BY <1>1, <1>2, <2>1, LocalShape
  <2>3. Idle' /\ op' \in [Tasks -> {"none", "listing", "file", "ticket", "attachment", "fetching"}]
    BY <1>2, <2>1 DEF Idle
  <2> QED
    BY <1>1, <1>3, <1>5, <2>2, <2>3, ArrivalStep
<1>6. CASE kind[t] \in {"ticket", "url", "foreign"}
  <2>1. ApplyPatch(t)
    BY <1>6 DEF RunTask
  <2> HIDE DEF t
  <2>2. ready' = <<t>> /\ fail' \in Seq(Tasks) /\ UNCHANGED <<depth, files, procs>>
    BY <1>2, <1>3, <2>1 DEF ApplyPatch, Listen
  <2>3. CASE kind[t] = "foreign"
    <3>1. op' = [u \in Tasks |-> "none"]
      BY <1>2, <2>1, <2>3 DEF ApplyPatch
    <3>2. calls = <<>> /\ ready' \in Seq(Tasks)
      BY <1>1, <2>2 DEF InHand
    <3>3. calls' \in {<<>>, <<Done(t, FALSE)>>} /\ ended' = "no"
      <4>1. Append(calls, Done(t, FALSE)) = <<Done(t, FALSE)>>
        BY <3>2
      <4>2. Threw("task", t) => calls' = Append(calls, Done(t, FALSE)) /\ ended' = ended
        <5>1. Threw("task", t) => ended' \in {ended}
          BY DEF Threw
        <5> QED
          BY <5>1 DEF Threw
      <4>3. UNCHANGED <<calls, ended>> \/ Threw("task", t)
        BY <2>1 DEF ApplyPatch
      <4> QED
        BY <1>1, <3>2, <4>1, <4>2, <4>3
    <3>4. calls' \in Seq([task : Tasks, ok : BOOLEAN]) /\ \A k \in DOMAIN calls' : ~calls'[k].ok
      <4>1. CASE calls' = <<>>
        BY <4>1
      <4>2. CASE calls' = <<Done(t, FALSE)>>
        BY <1>1, <4>2 DEF Done
      <4> QED
        BY <3>3, <4>1, <4>2
    <3> QED
      BY <1>1, <2>2, <3>1, <3>2, <3>3, <3>4, LoseStep
  <2>4. CASE kind[t] \in {"ticket", "url"}
    <3>1. /\ \E o \in {"ticket", "fetching"} : op' = [op EXCEPT ![t] = o]
          /\ UNCHANGED <<calls, ended>>
      BY <2>1, <2>4 DEF ApplyPatch
    <3>4. PICK o \in {"ticket", "fetching"} : op' = [op EXCEPT ![t] = o]
      BY <3>1
    <3>2. op' = [u \in Tasks |-> IF u = t THEN o ELSE "none"]
      BY <1>2, <3>4
    <3>3. o \in Ops \ {"none"} /\ o \notin {"listing", "file"}
      BY DEF Ops
    <3> QED
      BY <1>1, <2>2, <3>1, <3>2, <3>3, WaitStep
  <2> QED
    BY <1>6, <2>3, <2>4
<1>7. kind[t] \in Kinds
  BY <1>1, <1>2
<1> QED
  BY <1>4, <1>5, <1>6, <1>7 DEF Kinds

\* An answer that ends what the task in hand waits for, and the run with it.
LEMMA AnswerLoses ==
  ASSUME GruntInv, ended = "no", NEW t \in Tasks, op[t] # "none",
         op' = [op EXCEPT ![t] = "none"], ended' \in {"no", "fatal"},
         UNCHANGED <<inputs, turns, next, depth, files, procs, given>>,
         calls' \in Seq([task : Tasks, ok : BOOLEAN]), \A k \in DOMAIN calls' : ~calls'[k].ok,
         ready' \in Seq(Tasks), fail' \in Seq(Tasks)
  PROVE  GruntInv'
<1>1. /\ InHand(t) /\ next' = t + 1 /\ turns' = 0
      /\ op' = [u \in Tasks |-> "none"]
  BY OpInHand
<1> QED
  BY <1>1, LoseStep

LEMMA NoCalls ==
  ASSUME calls = <<>>, UNCHANGED calls
  PROVE  calls' \in Seq([task : Tasks, ok : BOOLEAN]) /\ \A k \in DOMAIN calls' : ~calls'[k].ok
OBVIOUS

\* An answer that makes it wait for another.
LEMMA AnswerGoesOn ==
  ASSUME GruntInv, ended = "no", NEW t \in Tasks, op[t] # "none",
         NEW o \in Ops \ {"none"}, op' = [op EXCEPT ![t] = o], ended' = "no",
         op[t] \in {"listing", "file"} <=> o \in {"listing", "file"},
         UNCHANGED <<inputs, turns, next, depth, files, procs, given, calls, ready, fail>>
  PROVE  GruntInv'
<1>1. /\ InHand(t) /\ next' = t + 1 /\ turns' = 0
      /\ op' = [u \in Tasks |-> IF u = t THEN o ELSE "none"]
      /\ ready' = IF o \in {"listing", "file"} THEN <<>> ELSE <<t>>
      /\ fail' \in Seq(Tasks) /\ (o \in {"listing", "file"} => kind[t] = "none")
  BY OpInHand DEF GruntInv, TypeOK
<1> QED
  BY <1>1, WaitStep

LEMMA ListedStep ==
  ASSUME GruntInv, NEW t \in Tasks, Listed(t)
  PROVE  GruntInv'
<1>1. /\ ended = "no" /\ op[t] = "listing" /\ UNCHANGED <<inputs, turns, next, given>>
  BY DEF Listed
<1>2. calls = <<>> /\ ready \in Seq(Tasks) /\ fail \in Seq(Tasks)
  BY <1>1, OpInHand DEF GruntInv, TypeOK, InHand
<1>3. CASE /\ calls' = Append(calls, Done(t, FALSE)) /\ op' = [op EXCEPT ![t] = "none"]
           /\ UNCHANGED <<ready, fail, depth, files, procs, ended>>
  <2>1. calls' = <<Done(t, FALSE)>>
    BY <1>2, <1>3
  <2>2. calls' \in Seq([task : Tasks, ok : BOOLEAN]) /\ \A k \in DOMAIN calls' : ~calls'[k].ok
    BY <2>1 DEF Done
  <2> QED
    BY <1>1, <1>2, <1>3, <2>2, AnswerLoses
<1>4. CASE ApplyFile(t, "callback")
  BY <1>1, <1>4, ApplyFileStep
<1>5. CASE /\ op' = [op EXCEPT ![t] = "file"]
           /\ UNCHANGED <<ready, fail, depth, files, procs, calls, ended>>
  <2>1. "file" \in Ops \ {"none"}
    BY DEF Ops
  <2> QED
    BY <1>1, <1>5, <2>1, AnswerGoesOn
<1> QED
  BY <1>3, <1>4, <1>5 DEF Listed

LEMMA FileChosenStep ==
  ASSUME GruntInv, NEW t \in Tasks, FileChosen(t)
  PROVE  GruntInv'
BY ApplyFileStep DEF FileChosen

LEMMA TicketStep ==
  ASSUME GruntInv, NEW t \in Tasks, TicketAnswered(t)
  PROVE  GruntInv'
<1>1. /\ ended = "no" /\ op[t] = "ticket"
      /\ UNCHANGED <<inputs, turns, next, ready, depth, files, procs, given>>
  BY DEF TicketAnswered
<1>2. calls = <<>> /\ ready \in Seq(Tasks) /\ fail \in Seq(Tasks)
  BY <1>1, OpInHand DEF GruntInv, TypeOK, InHand
<1>3. CASE op' = [op EXCEPT ![t] = "none"] /\ ended' = "fatal" /\ UNCHANGED <<calls, fail>>
  BY <1>1, <1>2, <1>3, NoCalls, AnswerLoses
<1>4. CASE op' = [op EXCEPT ![t] = "none"] /\ EmitFail(fail) /\ UNCHANGED ended
  BY <1>1, <1>2, <1>4, EmitFailShape, AnswerLoses
<1>5. CASE /\ op' \in {[op EXCEPT ![t] = "fetching"], [op EXCEPT ![t] = "attachment"]}
           /\ UNCHANGED <<calls, ended, fail>>
  <2>1. PICK o \in {"fetching", "attachment"} : op' = [op EXCEPT ![t] = o]
    BY <1>5
  <2>2. o \in Ops \ {"none"} /\ o \notin {"listing", "file"}
    BY DEF Ops
  <2> QED
    BY <1>1, <1>5, <2>1, <2>2, AnswerGoesOn
<1> QED
  BY <1>3, <1>4, <1>5 DEF TicketAnswered

LEMMA AttachmentStep ==
  ASSUME GruntInv, NEW t \in Tasks, AttachmentChosen(t)
  PROVE  GruntInv'
<1>1. /\ ended = "no" /\ op[t] = "attachment"
      /\ UNCHANGED <<inputs, turns, next, calls, ready, fail, depth, files, procs, given>>
  BY DEF AttachmentChosen
<1>2. calls = <<>> /\ ready \in Seq(Tasks) /\ fail \in Seq(Tasks)
  BY <1>1, OpInHand DEF GruntInv, TypeOK, InHand
<1>3. CASE op' = [op EXCEPT ![t] = "fetching"] /\ UNCHANGED ended
  <2>1. "fetching" \in Ops \ {"none"}
    BY DEF Ops
  <2> QED
    BY <1>1, <1>3, <2>1, AnswerGoesOn
<1>4. CASE op' = [op EXCEPT ![t] = "none"] /\ ended' \in {"no", "fatal"}
  BY <1>1, <1>2, <1>4, NoCalls, AnswerLoses
<1> QED
  BY <1>3, <1>4 DEF AttachmentChosen

LEMMA FetchedStep ==
  ASSUME GruntInv, NEW t \in Tasks, Fetched(t)
  PROVE  GruntInv'
<1>1. /\ ended = "no" /\ op[t] = "fetching" /\ op' = [op EXCEPT ![t] = "none"]
      /\ UNCHANGED <<inputs, turns, next, given>>
  BY DEF Fetched
<1>2. /\ calls = <<>> /\ ready = <<t>> /\ fail \in Seq(Tasks) /\ ready \in Seq(Tasks)
      /\ InHand(t) /\ next' = t + 1 /\ turns' = 0 /\ op' = [u \in Tasks |-> "none"]
  BY <1>1, OpInHand DEF GruntInv, TypeOK, InHand
<1>3. CASE ended' = "fatal" /\ UNCHANGED <<calls, ready, fail, depth, files, procs>>
  BY <1>1, <1>2, <1>3, NoCalls, AnswerLoses
<1>4. CASE EmitFail(fail) /\ UNCHANGED <<ended, ready, depth, files, procs>>
  BY <1>1, <1>2, <1>4, EmitFailShape, AnswerLoses
<1>5. CASE /\ files' = NewFiles(t) /\ EmitReady(t, ready, NewFiles(t))
           /\ ended' = IF Through(t, ready, NewFiles(t)) < Len(ready) THEN "fatal" ELSE "no"
           /\ UNCHANGED <<calls, fail>>
  <2>1. t \in Offered(t) /\ (Starts(t, t) \/ Breaks(t, t))
    BY <1>2, <1>5, FetchedShape DEF Offered
  <2>2. Idle' /\ op' \in [Tasks -> {"none", "listing", "file", "ticket", "attachment", "fetching"}]
    BY <1>2 DEF Idle
  <2>3. fail' \in Seq(Tasks)
    BY <1>2, <1>5
  <2> QED
    BY <1>1, <1>2, <2>1, <2>2, <2>3, ArrivalStep
<1> QED
  BY <1>3, <1>4, <1>5 DEF Fetched, NewFiles

\* A patch process means that the run patches, and it is the only one.
LEMMA OneProcess ==
  ASSUME GruntInv, ended = "no", NEW k \in DOMAIN procs
  PROVE  /\ Patching /\ k = 1 /\ Len(procs) = 1 /\ procs = <<procs[1]>>
         /\ procs[1] \in Processes /\ procs[1].task = Latest
<1>1. procs \in Seq(Processes)
  BY DEF GruntInv, TypeOK
<1>2. procs # <<>>
  BY <1>1
<1>3. Patching
  BY <1>2 DEF GruntInv, PhaseInv, Turn, Waiting, Exited, Lost
<1>4. Len(procs) = 1 /\ procs[1].task = Latest
  BY <1>3 DEF Patching
<1> QED
  BY <1>1, <1>3, <1>4

LEMMA PatchReadsStep ==
  ASSUME GruntInv, NEW k, PatchReads(k)
  PROVE  GruntInv'
<1> DEFINE p == procs[1]  got == files[p.file]
<1>1. /\ ended = "no" /\ k \in DOMAIN procs /\ procs[k].read = Unread
      /\ procs' = [procs EXCEPT ![k].read = files[procs[k].file]]
      /\ given' = IF files[procs[k].file] = procs[k].patch THEN given \cup {procs[k].task} ELSE given
      /\ UNCHANGED <<inputs, grunt, op, ready, fail, depth, files>>
  BY DEF PatchReads
<1>2. /\ Patching /\ k = 1 /\ Len(procs) = 1 /\ procs = <<p>> /\ p \in Processes
      /\ p.task = Latest
  BY <1>1, OneProcess
<1>3. /\ p.file \in DOMAIN files /\ got \in 0 .. NTasks /\ NTasks \in Nat /\ p.task \in Tasks
      /\ TypeOK
  BY <1>2, NTasksAssumption DEF Processes, GruntInv, TypeOK
<1>4. got \in {p.patch, Missing}
  BY <1>1, <1>2 DEF GruntInv, FileInv
<1>5. /\ procs' = <<[p EXCEPT !.read = got]>> /\ Len(procs') = 1 /\ DOMAIN procs' = {1}
      /\ procs'[1].task = p.task /\ procs'[1].patch = p.patch /\ procs'[1].file = p.file
      /\ procs'[1].read = got
      /\ procs'[1] \in Processes
  <2>1. [p EXCEPT !.read = got] =
          [task |-> p.task, patch |-> p.patch, file |-> p.file, read |-> got]
    BY <1>2 DEF Processes
  <2>2. procs' = <<[p EXCEPT !.read = got]>>
    BY <1>1, <1>2
  <2>3. got \in 0 .. Unread
    BY <1>3 DEF Unread
  <2>4. [p EXCEPT !.read = got] \in Processes
    BY <1>2, <2>1, <2>3 DEF Processes
  <2> HIDE DEF p, got
  <2> QED
    BY <2>1, <2>2, <2>4
<1>6. given' = IF got = p.patch THEN given \cup {p.task} ELSE given
  BY <1>1, <1>2
<1>7. got # Unread
  BY <1>3 DEF Unread
<1> HIDE DEF p, got
<1>8. TypeOK'
  <2>1. procs' \in Seq(Processes)
    BY <1>5
  <2>2. given' \subseteq Tasks
    BY <1>3, <1>6 DEF TypeOK
  <2> QED
    BY <1>1, <1>3, <2>1, <2>2 DEF TypeOK, inputs, grunt
<1>9. Latest' = Latest /\ Served' = Served /\ Idle' /\ Latest \in Tasks
  BY <1>1, <1>2 DEF Latest, Served, Idle, grunt, Patching
<1>10. Patching'
  BY <1>1, <1>2, <1>5, <1>9 DEF Patching, grunt
<1>11. PhaseInv'
  BY <1>1, <1>10 DEF PhaseInv, grunt
<1>12. FileInv'
  <2>1. \A m \in DOMAIN procs' : procs'[m].read # Unread
    BY <1>5, <1>7
  <2>2. depth' = depth /\ files' = files /\ FileInv
    BY <1>1 DEF GruntInv
  <2> QED
    BY <1>9, <2>1, <2>2 DEF FileInv
<1>13. ServedInv'
  <2> SUFFICES ASSUME OneInSrc' PROVE ServedInv'
    BY DEF ServedInv
  <2>1. OneInSrc
    BY <1>1, OneInSrcKept
  <2>2. /\ 1 .. Latest - 1 \subseteq given
        /\ files[p.file] = p.patch
        /\ \A m \in DOMAIN files : m > 1 => files[m] = Missing
    BY <1>1, <1>2, <2>1 DEF GruntInv, ServedInv, p
  <2>3. Latest \in given' /\ 1 .. Latest - 1 \subseteq given'
    BY <1>2, <1>6, <2>2 DEF got
  <2>4. ~Turn' /\ ~Waiting' /\ ~Exited'
    BY <1>5 DEF Turn, Waiting, Exited
  <2> QED
    BY <1>1, <1>5, <1>7, <1>9, <2>2, <2>3, <2>4 DEF ServedInv
<1>14. OwnPatch'
  <2>1. p.patch # p.task => kind[p.task] \in {"none", "local"} /\ (opts.debug \/ depth > 1)
    BY <1>1, <1>2 DEF GruntInv, OwnPatch, p
  <2>2. kind' = kind /\ opts' = opts /\ depth' = depth
    BY <1>1 DEF inputs
  <2> QED
    BY <1>4, <1>5, <2>1, <2>2 DEF OwnPatch
<1>15. FinishedMeansGiven'
  BY <1>1 DEF FinishedMeansGiven, grunt
<1> QED
  BY <1>8, <1>11, <1>12, <1>13, <1>14, <1>15 DEF GruntInv

LEMMA PatchExitsStep ==
  ASSUME GruntInv, NEW k, PatchExits(k)
  PROVE  GruntInv'
<1>1. /\ ended = "no" /\ k \in DOMAIN procs /\ procs[k].read # Unread
      /\ procs' = Gone(k)
      /\ files' = IF opts.debug THEN files ELSE [files EXCEPT ![File(depth)] = Missing]
      /\ \/ calls' = Append(calls, Done(procs[k].task, TRUE)) /\ UNCHANGED ended
         \/ ended' = "failed" /\ UNCHANGED calls
      /\ UNCHANGED <<inputs, turns, next, op, ready, fail, depth, given>>
  BY DEF PatchExits
<1>2. /\ Patching /\ k = 1 /\ Len(procs) = 1 /\ procs = <<procs[1]>>
      /\ procs[1] \in Processes /\ procs[1].task = Latest /\ calls = <<>>
  BY <1>1, OneProcess DEF Patching
<1>3. /\ procs' = <<>> /\ Latest \in Tasks /\ Idle /\ turns = 0 /\ ready = <<>>
      /\ TypeOK /\ NTasks \in Nat /\ src' = src /\ opts' = opts
  <2>1. Gone(1) = <<>>
    BY <1>2 DEF Gone
  <2> QED
    BY <1>1, <1>2, <2>1, NTasksAssumption DEF Patching, GruntInv, inputs
<1>4. Idle' /\ Latest' = Latest /\ Served' = Served /\ Served = Latest
  BY <1>1, <1>3 DEF Idle, Latest, Served
<1>5. /\ files' \in [1 .. NTasks + 1 -> 0 .. NTasks]
      /\ \A m \in 1 .. NTasks + 1 : files'[m] \in {files[m], Missing}
      /\ ~opts.debug /\ File(depth) \in 1 .. NTasks + 1 => files'[File(depth)] = Missing
  <2>1. files \in [1 .. NTasks + 1 -> 0 .. NTasks] /\ Missing \in 0 .. NTasks
    BY <1>3 DEF TypeOK, Missing
  <2>2. CASE opts.debug
    BY <1>1, <2>1, <2>2
  <2>3. CASE ~opts.debug
    BY <1>1, <2>1, <2>3
  <2> QED
    BY <2>2, <2>3
<1>6. \/ calls' = <<Done(Latest, TRUE)>> /\ ended' = "no"
      \/ calls' = <<>> /\ ended' = "failed"
  <2>1. procs[k].task = Latest
    BY <1>2
  <2>2. Append(calls, Done(Latest, TRUE)) = <<Done(Latest, TRUE)>>
    BY <1>2
  <2>3. CASE calls' = Append(calls, Done(procs[k].task, TRUE)) /\ UNCHANGED ended
    <3>1. calls' = <<Done(Latest, TRUE)>>
      BY <2>1, <2>2, <2>3
    <3>2. ended' = "no"
      BY <1>1, <2>3
    <3> QED
      BY <3>1, <3>2
  <2> QED
    BY <1>1, <1>2, <2>3
<1>7. TypeOK'
  <2>1. calls' \in Seq([task : Tasks, ok : BOOLEAN])
    <3>1. /\ <<Done(Latest, TRUE)>> \in Seq([task : Tasks, ok : BOOLEAN])
          /\ <<>> \in Seq([task : Tasks, ok : BOOLEAN])
      BY <1>3 DEF Done
    <3> QED
      BY <1>6, <3>1
  <2>2. procs' \in Seq(Processes)
    BY <1>3
  <2>3. ended' \in {"no", "failed"}
    BY <1>6
  <2> QED
    BY <1>1, <1>3, <1>5, <2>1, <2>2, <2>3 DEF TypeOK, inputs
<1>8. FileInv'
  <2>1. \A m \in 1 .. NTasks + 1 : m > File(depth') => files'[m] = Missing
    BY <1>1, <1>3, <1>5 DEF GruntInv, FileInv, TypeOK
  <2>2. FileInv /\ depth' = depth
    BY <1>1 DEF GruntInv
  <2> QED
    BY <1>3, <1>4, <1>5, <2>1, <2>2 DEF FileInv
<1>9. ASSUME ended' = "no" PROVE Exited'
  BY <1>1, <1>3, <1>4, <1>6, <1>9 DEF Exited, Done
<1>10. PhaseInv'
  BY <1>3, <1>4, <1>9 DEF PhaseInv
<1>11. ServedInv'
  <2> SUFFICES ASSUME OneInSrc', ended' = "no" PROVE ServedInv'
    BY DEF ServedInv
  <2>1. OneInSrc
    BY <1>1, OneInSrcKept
  <2>2. /\ 1 .. Latest - 1 \subseteq given /\ Latest \in given
        /\ \A m \in DOMAIN files : m > 1 => files[m] = Missing
    BY <1>1, <1>2, <2>1 DEF GruntInv, ServedInv
  <2>3. 1 .. Served' \subseteq given'
    BY <1>1, <1>3, <1>4, <2>2 DEF Tasks
  <2>4. Empty'
    <3> SUFFICES ASSUME ~opts.debug, NEW m \in 1 .. NTasks + 1 PROVE files'[m] = Missing
      BY <1>3, <1>5 DEF Empty
    <3>1. File(depth) = 1 /\ 1 \in 1 .. NTasks + 1
      BY <1>3, <2>1 DEF TypeOK, File, OneInSrc
    <3>2. CASE m = 1
      BY <1>5, <3>1, <3>2
    <3>3. CASE m # 1
      BY <1>3, <1>5, <2>2, <3>3 DEF TypeOK
    <3> QED
      BY <3>2, <3>3
  <2>5. ~Patching'
    BY <1>3 DEF Patching
  <2> QED
    BY <2>3, <2>4, <2>5 DEF ServedInv
<1>12. OwnPatch' /\ FinishedMeansGiven'
  <2>1. ended' # "finished"
    BY <1>6
  <2>2. DOMAIN procs' = {}
    BY <1>3
  <2> QED
    BY <2>1, <2>2 DEF OwnPatch, FinishedMeansGiven
<1> QED
  BY <1>7, <1>8, <1>10, <1>11, <1>12 DEF GruntInv

LEMMA EndStep ==
  ASSUME GruntInv, Idle, Len(procs) <= 1, ended' \in {"failed", "fatal", "drained"},
         calls' \in Seq([task : Tasks, ok : BOOLEAN]),
         UNCHANGED <<inputs, turns, next, op, ready, fail, depth, files, procs, given>>
  PROVE  GruntInv'
<1>1. TypeOK'
  BY DEF GruntInv, TypeOK, inputs
<1>2. Idle' /\ Served' = Served
  BY DEF Idle, Served
<1>3. PhaseInv'
  BY <1>2 DEF PhaseInv
<1>4. FileInv'
  BY <1>2, OneInSrcKept DEF GruntInv, FileInv, inputs
<1>5. ServedInv' /\ FinishedMeansGiven'
  BY DEF ServedInv, FinishedMeansGiven
<1>6. OwnPatch'
  BY DEF GruntInv, OwnPatch, inputs
<1> QED
  BY <1>1, <1>3, <1>4, <1>5, <1>6 DEF GruntInv

LEMMA QueueEmptyStep ==
  ASSUME GruntInv, QueueEmpty
  PROVE  GruntInv'
<1>1. /\ ended = "no" /\ next = NTasks + 1 /\ ended' = "finished"
      /\ UNCHANGED <<inputs, turns, next, calls, op, ready, fail, depth, files, procs, given>>
      /\ Turn /\ NTasks \in Nat
  BY TurnInHand, NTasksAssumption DEF QueueEmpty
<1>2. TypeOK'
  BY <1>1 DEF GruntInv, TypeOK, inputs
<1>3. Idle' /\ Served' = Served /\ Served = NTasks /\ procs = <<>>
  BY <1>1 DEF Idle, Served, Turn
<1>4. PhaseInv'
  BY <1>1, <1>3 DEF PhaseInv
<1>5. FileInv'
  BY <1>1, <1>3, OneInSrcKept DEF GruntInv, FileInv, inputs
<1>6. ServedInv' /\ OwnPatch'
  BY <1>1, <1>3 DEF ServedInv, OwnPatch
<1>7. FinishedMeansGiven'
  <2> SUFFICES ASSUME OneInSrc'
               PROVE  /\ given' = Tasks
                      /\ ~opts'.debug => \A k \in DOMAIN files' : files'[k] = Missing
    BY DEF FinishedMeansGiven
  <2>1. OneInSrc
    BY <1>1, OneInSrcKept DEF inputs
  <2>2. 1 .. Served \subseteq given /\ Empty /\ given \subseteq Tasks
    BY <1>1, <2>1 DEF GruntInv, ServedInv, TypeOK
  <2> QED
    BY <1>1, <1>3, <2>2 DEF Tasks, Empty, inputs
<1> QED
  BY <1>2, <1>4, <1>5, <1>6, <1>7 DEF GruntInv

LEMMA CompleteStep ==
  ASSUME GruntInv, Complete
  PROVE  GruntInv'
<1>1. /\ ended = "no" /\ calls # <<>> /\ calls' = Tail(calls)
      /\ IF Head(calls).ok THEN turns' = turns + 1 /\ UNCHANGED ended
         ELSE ended' = "failed" /\ UNCHANGED turns
      /\ UNCHANGED <<inputs, next, op, ready, fail, depth, files, procs, given>>
  BY DEF Complete
<1>2. calls \in Seq([task : Tasks, ok : BOOLEAN])
  BY DEF GruntInv, TypeOK
<1>3. Exited \/ Lost
  BY <1>1 DEF GruntInv, PhaseInv, Turn, Waiting, Patching
<1>4. CASE Exited
  <2>1. calls = <<Done(Latest, TRUE)>> /\ Idle /\ procs = <<>> /\ ready = <<>> /\ turns = 0
    BY <1>4 DEF Exited
  <2>2. Head(calls) = Done(Latest, TRUE) /\ calls' = <<>>
    BY <1>1, <2>1
  <2>3. turns' = 1 /\ ended' = "no"
    BY <1>1, <2>1, <2>2 DEF Done
  <2>4. Idle' /\ Served' = Served
    BY <1>1 , <2>1 DEF Idle, Served
  <2>5. Turn'
    BY <1>1, <2>1, <2>2, <2>3, <2>4 DEF Turn
  <2>6. TypeOK'
    <3>1. calls' \in Seq([task : Tasks, ok : BOOLEAN]) /\ turns' \in 0 .. 1
      BY <2>2, <2>3
    <3> QED
      BY <1>1, <2>3, <3>1 DEF GruntInv, TypeOK, inputs
  <2>7. PhaseInv'
    BY <2>3, <2>5 DEF PhaseInv
  <2>8. FileInv'
    BY <1>1, <2>4, OneInSrcKept DEF GruntInv, FileInv, inputs
  <2>9. ServedInv'
    <3>1. ~Patching'
      BY <1>1, <2>1 DEF Patching
    <3>2. OneInSrc => 1 .. Served \subseteq given /\ Empty
      BY <1>1, <1>4 DEF GruntInv, ServedInv
    <3>3. OneInSrc' => 1 .. Served' \subseteq given' /\ Empty'
      BY <1>1, <2>4, <3>2, OneInSrcKept DEF Empty, inputs
    <3> QED
      BY <3>1, <3>3 DEF ServedInv
  <2>10. OwnPatch' /\ FinishedMeansGiven'
    BY <1>1, <2>1, <2>3 DEF OwnPatch, FinishedMeansGiven
  <2> QED
    BY <2>6, <2>7, <2>8, <2>9, <2>10 DEF GruntInv
<1>5. CASE Lost
  <2>1. Idle /\ procs = <<>> /\ \A k \in DOMAIN calls : ~calls[k].ok
    BY <1>5 DEF Lost
  <2>2. ~Head(calls).ok /\ Tail(calls) \in Seq([task : Tasks, ok : BOOLEAN])
    BY <1>1, <1>2, <2>1
  <2>3. ended' = "failed" /\ turns' = turns /\ Len(procs) <= 1
    BY <1>1, <2>1, <2>2
  <2> QED
    BY <1>1, <2>1, <2>2, <2>3, EndStep
<1> QED
  BY <1>3, <1>4, <1>5

LEMMA StopStep ==
  ASSUME GruntInv, Drain \/ \E k \in 1 .. NTasks : SpawnFails(k)
  PROVE  GruntInv'
<1>1. calls \in Seq([task : Tasks, ok : BOOLEAN])
  BY DEF GruntInv, TypeOK
<1>2. CASE Drain
  <2>1. Idle /\ Len(procs) <= 1
    BY <1>2 DEF Drain, Idle
  <2> QED
    BY <1>1, <1>2, <2>1, EndStep DEF Drain
<1>3. ASSUME NEW k \in 1 .. NTasks, SpawnFails(k) PROVE GruntInv'
  <2>1. Idle /\ Len(procs) <= 1
    BY <1>3, OneProcess DEF SpawnFails, Patching
  <2> QED
    BY <1>1, <1>3, <2>1, EndStep DEF SpawnFails
<1> QED
  BY <1>2, <1>3

LEMMA GruntFrame ==
  ASSUME GruntInv, UNCHANGED vars
  PROVE  GruntInv'
<1>1. TypeOK' /\ Idle' = Idle /\ Served' = Served /\ Latest' = Latest
  BY DEF GruntInv, TypeOK, vars, inputs, grunt, Idle, Served, Latest
<1>2. PhaseInv'
  BY <1>1 DEF GruntInv, PhaseInv, Turn, Waiting, Patching, Exited, Lost, Done, vars, inputs, grunt
<1>3. FileInv'
  BY <1>1, OneInSrcKept DEF GruntInv, FileInv, vars, inputs, grunt
<1>4. /\ Turn' = Turn /\ Waiting' = Waiting /\ Exited' = Exited /\ Patching' = Patching
      /\ Empty' = Empty
  BY <1>1 DEF Turn, Waiting, Patching, Exited, Done, Empty, vars, inputs, grunt
<1>5. ServedInv'
  BY <1>1, <1>4, OneInSrcKept DEF GruntInv, ServedInv, vars, inputs, grunt
<1>6. OwnPatch' /\ FinishedMeansGiven'
  BY OneInSrcKept DEF GruntInv, OwnPatch, FinishedMeansGiven, vars, inputs, grunt
<1> QED
  BY <1>1, <1>2, <1>3, <1>5, <1>6 DEF GruntInv

LEMMA GruntStep == GruntInv /\ [Next]_vars => GruntInv'
<1> SUFFICES ASSUME GruntInv, [Next]_vars PROVE GruntInv'
  OBVIOUS
<1>1. CASE RunTask \/ QueueEmpty \/ Complete \/ Drain
  BY <1>1, RunTaskStep, QueueEmptyStep, CompleteStep, StopStep
<1>2. ASSUME NEW t \in Tasks, \/ Listed(t) \/ FileChosen(t) \/ TicketAnswered(t)
                                \/ AttachmentChosen(t) \/ Fetched(t)
      PROVE  GruntInv'
  BY <1>2, ListedStep, FileChosenStep, TicketStep, AttachmentStep, FetchedStep
<1>3. ASSUME NEW k \in 1 .. NTasks, PatchReads(k) \/ PatchExits(k) \/ SpawnFails(k)
      PROVE  GruntInv'
  BY <1>3, PatchReadsStep, PatchExitsStep, StopStep
<1>4. CASE UNCHANGED vars
  BY <1>4, GruntFrame
<1> QED
  BY <1>1, <1>2, <1>3, <1>4 DEF Next

LEMMA GruntInit == Init => GruntInv
<1> SUFFICES ASSUME Init PROVE GruntInv
  OBVIOUS
<1>1. /\ next = 1 /\ depth = 0 /\ turns = 1 /\ procs = <<>> /\ calls = <<>> /\ ready = <<>>
      /\ ended = "no" /\ Idle /\ NTasks \in Nat /\ NTasks >= 1
      /\ files = [k \in 1 .. NTasks + 1 |-> Missing]
  BY NTasksAssumption DEF Init, Idle
<1>2. TypeOK
  BY <1>1 DEF Init, TypeOK, Missing
<1>3. Served = 0
  BY <1>1 DEF Served
<1>4. PhaseInv
  BY <1>1 DEF PhaseInv, Turn
<1>5. FileInv
  BY <1>1, <1>3 DEF FileInv
<1>6. ServedInv
  <2>1. ~Patching
    BY <1>1 DEF Patching
  <2> QED
    BY <1>1, <1>3, <2>1 DEF ServedInv, Empty
<1>7. OwnPatch /\ FinishedMeansGiven
  BY <1>1 DEF OwnPatch, FinishedMeansGiven
<1> QED
  BY <1>2, <1>4, <1>5, <1>6, <1>7 DEF GruntInv

-----------------------------------------------------------------------------
(* GruntPatch: what follows                                                  *)

\* Whatever the answers of the network and of patch(1), one thing goes on at a
\* time, and the name of the temporary file grows only behind the last patch.
THEOREM GruntInvariance == Spec => []GruntInv
BY GruntInit, GruntStep, PTL DEF Spec

\* The queue, the listeners, the shared files and the processes of a run are
\* well typed in every reachable state, for any number of tasks.
THEOREM GruntTypeCorrect == Spec => []TypeOK
<1>1. GruntInv => TypeOK
  BY DEF GruntInv
<1> QED
  BY <1>1, GruntInvariance, PTL

\* However many tasks are on the command line, there is never more than one
\* request, question or patch process, although no task removes its listeners.
THEOREM TasksInTurn == Spec => []OneAtATime
<1>1. ASSUME GruntInv PROVE OneAtATime
  <2> DEFINE Busy == {t \in Tasks : op[t] # "none"}
  <2>1. Len(procs) \in Nat
    BY <1>1 DEF GruntInv, TypeOK
  <2>2. CASE Idle
    <3>1. Busy = {}
      BY <2>2 DEF Idle
    <3>2. Cardinality(Busy) = 0
      BY <3>1, FS_EmptySet
    <3>3. Len(procs) <= 1
      <4>1. CASE procs = <<>>
        BY <4>1
      <4>2. CASE Patching
        BY <4>2 DEF Patching
      <4>3. CASE ended # "no"
        BY <1>1, <4>3 DEF GruntInv, PhaseInv
      <4>4. procs = <<>> \/ Patching \/ ended # "no"
        BY <1>1, <2>2 DEF GruntInv, PhaseInv, Turn, Waiting, Exited, Lost, Idle
      <4> QED
        BY <4>1, <4>2, <4>3, <4>4
    <3> QED
      BY <2>1, <3>2, <3>3 DEF OneAtATime
  <2>3. CASE ~Idle
    <3>1. Waiting
      BY <1>1, <2>3 DEF GruntInv, PhaseInv, Turn, Patching, Exited, Lost
    <3>2. Busy = {Latest} /\ Len(procs) = 0
      BY <3>1 DEF Waiting
    <3>3. Cardinality(Busy) = 1
      BY <3>2, FS_Singleton
    <3> QED
      BY <3>2, <3>3 DEF OneAtATime
  <2> QED
    BY <2>2, <2>3
<1> QED
  BY <1>1, GruntInvariance, PTL

\* However many tasks share the temporary file, patch(1) reads the patch that its
\* arguments were made for, or finds the file gone; only a task that takes a
\* file of the directory gets the patch of another, left there by --debug or
\* behind a second prefix.
THEOREM PatchesNotMixed == Spec => []OwnPatch
<1>1. GruntInv => OwnPatch
  BY DEF GruntInv
<1> QED
  BY <1>1, GruntInvariance, PTL

\* A run of any number of tasks that ends normally has given every patch to
\* patch(1), if at most one was for src/, and without --debug leaves no file.
THEOREM FinishedIsGiven == Spec => []FinishedMeansGiven
<1>1. GruntInv => FinishedMeansGiven
  BY DEF GruntInv
<1> QED
  BY <1>1, GruntInvariance, PTL

-----------------------------------------------------------------------------
(* WebScan: the inductive invariant                                          *)

\* Where the checks are run one after another, and what follows.
Scanning == {"scan", "starting", "running", "stopping", "settling", "reading"}
Closing  == {"report", "log", "closing"}

\* The checks at the first n places of the order that did not run to their
\* end, and those that found something.
Unfinished(n) == {c \in Checks : \E k \in 1 .. n : order[k] = c /\ temp[c] # "full"}
Found(n) ==
  {c \in Checks : \E k \in 1 .. n : order[k] = c /\ temp[c] = "full" /\ verdict[c] = "vulnerable"}

\* The checks that are through.
Past == IF pc \in Scanning THEN row - 1 ELSE IF pc \in Closing THEN N ELSE 0

Places ==
  /\ pc = "precheck" => row <= Len(Precheck) + 1
  /\ pc \in Scanning => row <= N + 1
  /\ pc \in Scanning \ {"scan"} => row <= N /\ enabled[Current]
  /\ pc = "report" => row <= Len(found) + 1
  /\ pc = "log" => row <= N + 1

\* The files of the checks that are not through.
Files ==
  /\ pc = "precheck" => \A c \in Checks : temp[c] = "none"
  /\ pc \in Scanning => \A k \in row + 1 .. N : temp[order[k]] = "none"
  /\ pc \in {"scan", "starting"} /\ row <= N => temp[Current] = "none"
  /\ pc = "running" => temp[Current] # "full"
  /\ pc \in {"stopping", "settling"} =>
       IF runTest THEN temp[Current] \in {"none", "full"} ELSE temp[Current] # "full"
  /\ pc = "reading" => temp[Current] \in {"none", "full"}
  /\ pc \notin {"stopping", "settling"} \cup Ended => runTest

\* The counter and the list of findings are those of the first n places.
Counted(n) ==
  /\ skipped = Cardinality(Unfinished(n))
  /\ \A c \in Checks : Contains(found, c) <=> c \in Found(n)
  /\ Len(found) <= n

\* The findings in the report.
Written ==
  /\ pc \notin Closing => report = <<>>
  /\ pc = "report" => report = [k \in 1 .. row - 1 |-> <<found[k], "full">>]
  /\ pc \in {"log", "closing"} => report = [k \in DOMAIN found |-> <<found[k], "full">>]

Tallies == pc \notin Ended => Counted(Past) /\ Written

\* A spinner thread for each check that was deployed.
Threads ==
  spinners.reading + spinners.sleeping <=
    CASE pc = "precheck"              -> 0
      [] pc = "scan"                  -> row - 1
      [] pc \in Scanning \ {"scan"}   -> row
      [] pc \in Closing \cup Ended    -> N

ScanInv == ScanTypeOK /\ Places /\ Files /\ Tallies /\ Threads

-----------------------------------------------------------------------------

LEMMA ScanSize == N \in Nat
BY ConstantsAssumption, FS_CardinalityType DEF N

\* The shuffled order has every check at one place.
LEMMA OrderShape ==
  ASSUME ScanTypeOK
  PROVE  /\ order \in [1 .. N -> Checks]
         /\ \A i, j \in 1 .. N : order[i] = order[j] => i = j
         /\ \A c \in Checks : \E k \in 1 .. N : order[k] = c
<1>1. /\ order \in [1 .. N -> Checks]
      /\ \A i, j \in 1 .. N : i # j => order[i] # order[j]
  BY DEF ScanTypeOK, SetToSeqs, N
<1>2. order \in Injection(1 .. N, Checks)
  BY <1>1 DEF Injection, IsInjective
<1>3. IsFiniteSet(1 .. N) /\ Cardinality(1 .. N) = N
  BY ScanSize, FS_Interval
<1>4. order \in Surjection(1 .. N, Checks)
  BY <1>2, <1>3, ConstantsAssumption, FS_Injection DEF N
<1> QED  BY <1>1, <1>4 DEF Surjection

LEMMA UnfinishedFinite ==
  ASSUME NEW n
  PROVE  /\ IsFiniteSet(Unfinished(n))
         /\ Cardinality(Unfinished(n)) \in 0 .. N
<1>1. Unfinished(n) \subseteq Checks
  BY DEF Unfinished
<1> QED  BY <1>1, ConstantsAssumption, ScanSize, FS_Subset, FS_CardinalityType DEF N

\* One more place adds its check to the unfinished ones, unless it has a full file.
LEMMA OneMoreUnfinished ==
  ASSUME ScanTypeOK, NEW n \in 0 .. N, n < N
  PROVE  /\ temp[order[n + 1]] = "full" => Unfinished(n + 1) = Unfinished(n)
         /\ temp[order[n + 1]] # "full" =>
              Cardinality(Unfinished(n + 1)) = Cardinality(Unfinished(n)) + 1
<1> DEFINE c == order[n + 1]
<1>1. n + 1 \in 1 .. N /\ c \in Checks
  BY ScanSize, OrderShape
<1>2. \A k : k \in 1 .. n + 1 <=> k \in 1 .. n \/ k = n + 1
  BY ScanSize
<1>3. CASE temp[c] = "full"
  BY <1>2, <1>3 DEF Unfinished
<1>4. CASE temp[c] # "full"
  <2>1. Unfinished(n + 1) = Unfinished(n) \cup {c}
    BY <1>1, <1>2, <1>4 DEF Unfinished
  <2>2. c \notin Unfinished(n)
    BY <1>1, OrderShape, ScanSize DEF Unfinished
  <2> QED  BY <2>1, <2>2, <1>4, UnfinishedFinite, FS_AddElement
<1> QED  BY <1>3, <1>4

LEMMA OneMoreFound ==
  ASSUME NEW n \in Nat
  PROVE  \A c \in Checks :
           c \in Found(n + 1) <=>
             c \in Found(n) \/ (c = order[n + 1] /\ temp[c] = "full" /\ verdict[c] = "vulnerable")
<1>1. \A k : k \in 1 .. n + 1 <=> k \in 1 .. n \/ k = n + 1
  OBVIOUS
<1> QED  BY <1>1 DEF Found

LEMMA ContainsAppend ==
  ASSUME NEW s \in Seq(Checks), NEW c \in Checks
  PROVE  \A d : Contains(Append(s, c), d) <=> Contains(s, d) \/ d = c
<1>1. Len(Append(s, c)) = Len(s) + 1 /\ Len(s) \in Nat
  OBVIOUS
<1>2. \A i \in 1 .. Len(s) : Append(s, c)[i] = s[i]
  OBVIOUS
<1>3. Append(s, c)[Len(s) + 1] = c
  OBVIOUS
<1> QED  BY <1>1, <1>2, <1>3 DEF Contains

LEMMA ScanInitial == ScanInit => ScanInv
<1> SUFFICES ASSUME ScanInit PROVE ScanInv
  OBVIOUS
<1>1. ScanTypeOK
  <2>1. <<>> \in Seq(Checks) /\ <<>> \in Seq(Checks \X {"none", "partial", "full"})
    OBVIOUS
  <2>2. Len(Precheck) \in Nat
    BY ConstantsAssumption
  <2>3. /\ row \in 1 .. N + Len(Precheck) + 1
        /\ skipped \in 0 .. N /\ interrupts \in 0 .. MaxInterrupts
    BY <2>2, ScanSize, ConstantsAssumption DEF ScanInit
  <2>4. spinners \in [reading : 0 .. N, sleeping : 0 .. N]
    BY ScanSize DEF ScanInit
  <2>5. temp \in [Checks -> {"none", "partial", "full"}] /\ enabled \in [Checks -> BOOLEAN]
    BY DEF ScanInit
  <2>6. \A c \in Checks : temp[c] # "none" => enabled[c]
    BY DEF ScanInit
  <2> QED  BY <2>1, <2>3, <2>4, <2>5, <2>6 DEF ScanInit, ScanTypeOK, Ended
<1>2. Past = 0
  BY DEF Past, ScanInit, Scanning, Closing
<1>3. Unfinished(0) = {} /\ Found(0) = {}
  BY DEF Unfinished, Found
<1>4. \A c \in Checks : ~Contains(found, c)
  BY DEF Contains, ScanInit
<1>5. Counted(0)
  <2>1. Len(found) = 0 /\ skipped = 0
    BY DEF ScanInit
  <2> QED  BY <1>3, <1>4, <2>1, FS_EmptySet DEF Counted
<1>6. Tallies
  BY <1>2, <1>5 DEF Tallies, Written, ScanInit, Closing
<1>7. Places /\ Files /\ Threads
  BY ConstantsAssumption DEF Places, Files, Threads, ScanInit, Scanning, Closing, Ended
<1> QED  BY <1>1, <1>6, <1>7 DEF ScanInv

-----------------------------------------------------------------------------
\* What a step leaves alone

\* The counts of the first n places depend on no other file.
LEMMA CountedKept ==
  ASSUME NEW n \in Nat, Counted(n), UNCHANGED <<order, verdict, found, skipped>>,
         \A k \in 1 .. n : temp'[order[k]] = temp[order[k]]
  PROVE  Counted(n)'
<1>1. Unfinished(n)' = Unfinished(n)
  BY DEF Unfinished
<1>2. Found(n)' = Found(n)
  BY DEF Found
<1> QED  BY <1>1, <1>2 DEF Counted

LEMMA TalliesKept ==
  ASSUME Tallies, pc \notin Ended, Past \in Nat, Past' = Past,
         UNCHANGED <<order, verdict, found, skipped>>, Written',
         \A k \in 1 .. Past : temp'[order[k]] = temp[order[k]]
  PROVE  Tallies'
<1>1. PICK n \in Nat : n = Past
  OBVIOUS
<1>2. Counted(n)
  BY <1>1 DEF Tallies, Counted
<1>3. Counted(n)'
  BY <1>1, <1>2, CountedKept
<1>4. Counted(Past)'
  BY <1>1, <1>3 DEF Counted, Unfinished, Found
<1> QED  BY <1>4 DEF Tallies

LEMMA PrecheckToolStep == ScanInv /\ PrecheckTool => ScanInv'
<1> SUFFICES ASSUME ScanInv, PrecheckTool PROVE ScanInv'
  OBVIOUS
<1> USE DEF ScanInv
<1>0. Len(Precheck) \in Nat
  BY ConstantsAssumption
<1>1. ScanTypeOK'
  <2>1. row' \in 1 .. N + Len(Precheck) + 1
    BY <1>0, ScanSize DEF ScanTypeOK, PrecheckTool
  <2>2. enabled' \in [Checks -> BOOLEAN]
    BY DEF ScanTypeOK, PrecheckTool
  <2>3. \A c \in Checks : temp'[c] = "none"
    BY DEF Files, PrecheckTool, fileVars
  <2>4. pc' \in {"precheck", "scan"}
    BY DEF PrecheckTool
  <2> QED  BY <2>1, <2>2, <2>3, <2>4 DEF ScanTypeOK, PrecheckTool, fileVars, worldVars, N
<1>2. Places'
  BY <1>0, ScanSize DEF Places, PrecheckTool, Scanning, ScanTypeOK, N, Current
<1>3. Files'
  <2>1. pc' \in {"precheck", "scan"} /\ pc = "precheck"
    BY DEF PrecheckTool
  <2>2. \A c \in Checks : temp'[c] = "none"
    BY <2>1 DEF Files, PrecheckTool, fileVars
  <2>3. runTest'
    BY <2>1 DEF Files, PrecheckTool, Ended
  <2>4. pc' = "scan" => row' = 1
    BY DEF PrecheckTool
  <2>5. \A k \in 1 .. N : order'[k] \in Checks
    BY OrderShape DEF PrecheckTool, worldVars
  <2>6. N' = N
    BY DEF N
  <2> QED  BY <2>1, <2>2, <2>3, <2>4, <2>5, <2>6, ScanSize DEF Files, Scanning, Current
<1>4. Past = 0 /\ Past' = 0
  BY DEF Past, PrecheckTool, Scanning, Closing
<1>5. Tallies'
  <2>1. Written' /\ pc \notin Ended
    BY DEF Tallies, Written, PrecheckTool, fileVars, Closing, Ended
  <2> QED  BY <1>4, <2>1, TalliesKept DEF PrecheckTool, fileVars, worldVars
<1>6. Threads'
  BY ScanSize DEF Threads, PrecheckTool, ScanTypeOK, Scanning, Closing, Ended, N
<1> QED  BY <1>1, <1>2, <1>3, <1>5, <1>6

-----------------------------------------------------------------------------
\* The checks, one after another

\* A check that is through goes to the counter or, with a finding, to the list.
LEMMA NextPlace ==
  ASSUME ScanTypeOK, NEW n \in 0 .. N, n < N, Counted(n), UNCHANGED <<order, verdict, temp>>,
         skipped' = (IF temp[order[n + 1]] = "full" THEN skipped ELSE skipped + 1),
         found' = (IF temp[order[n + 1]] = "full" /\ verdict[order[n + 1]] = "vulnerable"
                   THEN Append(found, order[n + 1]) ELSE found)
  PROVE  /\ Counted(n + 1)'
         /\ skipped' \in 0 .. N
         /\ found' \in Seq(Checks)
<1> DEFINE c == order[n + 1]
<1>1. /\ n \in Nat /\ c \in Checks
      /\ found \in Seq(Checks) /\ Len(found) \in Nat
  <2>1. n \in Nat /\ n + 1 \in 1 .. N
    BY ScanSize
  <2>2. found \in Seq(Checks)
    BY DEF ScanTypeOK
  <2> QED  BY <2>1, <2>2, OrderShape
<1>2. Unfinished(n + 1)' = Unfinished(n + 1) /\ Found(n + 1)' = Found(n + 1)
  BY DEF Unfinished, Found
<1>3. skipped' = Cardinality(Unfinished(n + 1))
  BY OneMoreUnfinished DEF Counted
<1>4. \A d \in Checks : Contains(found', d) <=> d \in Found(n + 1)
  <2>1. CASE temp[c] = "full" /\ verdict[c] = "vulnerable"
    BY <1>1, <2>1, OneMoreFound, ContainsAppend DEF Counted
  <2>2. CASE ~(temp[c] = "full" /\ verdict[c] = "vulnerable")
    BY <1>1, <2>2, OneMoreFound DEF Counted
  <2> QED  BY <2>1, <2>2
<1>5. found' \in Seq(Checks) /\ Len(found') <= n + 1
  BY <1>1 DEF Counted
<1>6. skipped' \in 0 .. N
  BY <1>3, UnfinishedFinite
<1> QED  BY <1>2, <1>3, <1>4, <1>5, <1>6 DEF Counted

\* The main thread goes on to the next check.
LEMMA OnToNext ==
  ASSUME ScanInv, pc \in {"scan", "settling", "reading"}, row <= N, pc' = "scan", row' = row + 1,
         UNCHANGED <<worldVars, enabled, busy, spinners, fileVars, interrupts>>, runTest' = TRUE,
         skipped' = (IF temp[Current] = "full" THEN skipped ELSE skipped + 1),
         found' = (IF temp[Current] = "full" /\ verdict[Current] = "vulnerable"
                   THEN Append(found, Current) ELSE found)
  PROVE  ScanInv'
<1> USE DEF ScanInv
<1>0. Len(Precheck) \in Nat /\ N' = N
  BY ConstantsAssumption DEF N
<1>1. row \in 1 .. N /\ Past = row - 1 /\ Past' = row
  <2>1. row \in Nat /\ row >= 1
    BY DEF ScanTypeOK
  <2> QED  BY <2>1, ScanSize DEF Past, Scanning
<1>2. UNCHANGED <<order, verdict, temp, report, log, installed>>
  BY DEF worldVars, fileVars
<1>3. PICK n \in 0 .. N : n = row - 1 /\ n < N /\ n + 1 = row
  BY <1>1, ScanSize
<1>4. Counted(n)
  BY <1>1, <1>3 DEF Tallies, Counted, Ended
<1>5. Counted(n + 1)' /\ skipped' \in 0 .. N /\ found' \in Seq(Checks)
  BY <1>2, <1>3, <1>4, NextPlace DEF Current
<1>6. Counted(Past)'
  BY <1>1, <1>3, <1>5 DEF Counted, Unfinished, Found
<1>7. Tallies'
  BY <1>2, <1>6 DEF Tallies, Written, Closing, Ended
<1>8. ScanTypeOK'
  <2>1. row' \in 1 .. N + Len(Precheck) + 1
    BY <1>0, <1>1, ScanSize
  <2> QED  BY <1>0, <1>2, <1>5, <2>1 DEF ScanTypeOK
<1>9. Places'
  BY <1>0, <1>1, ScanSize DEF Places, Scanning
<1>10. Files'
  <2>1. \A k \in row + 1 .. N : temp[order[k]] = "none"
    BY <1>1 DEF Files, Scanning
  <2>2. Current' = order[row + 1]
    BY <1>2 DEF Current
  <2> QED  BY <1>0, <1>1, <1>2, <2>1, <2>2, ScanSize DEF Files
<1>11. Threads'
  <2>1. spinners.reading \in Nat /\ spinners.sleeping \in Nat
    BY ScanSize DEF ScanTypeOK
  <2>2. spinners.reading + spinners.sleeping <= row
    BY <1>1, <2>1 DEF Threads, Scanning, Closing, Ended
  <2> QED  BY <1>1, <2>1, <2>2 DEF Threads, Scanning, Closing, Ended
<1> QED  BY <1>7, <1>8, <1>9, <1>10, <1>11

LEMMA SkipStep == ScanInv /\ Skip => ScanInv'
<1> SUFFICES ASSUME ScanInv, Skip PROVE ScanInv'
  OBVIOUS
<1>1. temp[Current] = "none" /\ runTest
  BY DEF ScanInv, Files, Skip, Ended
<1> QED  BY <1>1, OnToNext DEF Skip, ScanInv, ScanTypeOK

LEMMA DeployStep == ScanInv /\ Deploy => ScanInv'
<1> SUFFICES ASSUME ScanInv, Deploy PROVE ScanInv'
  OBVIOUS
<1> USE DEF ScanInv
<1>0. N' = N
  BY DEF N
<1>1. pc = "scan" /\ pc' = "starting" /\ row \in 1 .. N /\ row' = row /\ enabled[Current]
  BY ScanSize DEF Deploy, ScanTypeOK
<1>2. Past \in Nat /\ Past' = Past
  BY <1>1, ScanSize DEF Past, Scanning
<1>3. /\ UNCHANGED <<order, verdict, found, skipped, temp, report, runTest, enabled>>
      /\ UNCHANGED <<installed, log, interrupts>>
      /\ Current' = Current
  BY DEF Deploy, worldVars, fileVars, Current
<1>4. /\ spinners.reading \in Nat /\ spinners.sleeping \in Nat
      /\ spinners.reading + spinners.sleeping <= row - 1
      /\ spinners' = [spinners EXCEPT !.reading = @ + 1]
      /\ spinners \in [reading : 0 .. N, sleeping : 0 .. N]
  <2>1. spinners \in [reading : 0 .. N, sleeping : 0 .. N]
    BY DEF ScanTypeOK
  <2>2. spinners.reading + spinners.sleeping <= row - 1
    BY <1>1 DEF Threads, Scanning, Closing, Ended
  <2> QED  BY <2>1, <2>2, ScanSize DEF Deploy
<1>5. /\ spinners'.reading + spinners'.sleeping <= row
      /\ spinners' \in [reading : 0 .. N, sleeping : 0 .. N]
  BY <1>1, <1>4, ScanSize
<1>6. Threads'
  BY <1>1, <1>5 DEF Threads, Scanning, Closing, Ended
<1>7. ScanTypeOK'
  BY <1>0, <1>1, <1>3, <1>5 DEF ScanTypeOK, Deploy
<1>8. Tallies'
  <2>1. Written'
    BY <1>1, <1>3 DEF Tallies, Written, Closing, Ended
  <2>2. pc \notin Ended
    BY <1>1 DEF Ended
  <2> QED  BY <1>2, <1>3, <2>1, <2>2, TalliesKept
<1>9. Places'
  BY <1>0, <1>1, <1>3, ScanSize DEF Places, Scanning
<1>10. Files'
  BY <1>0, <1>1, <1>3 DEF Files, Scanning, Ended
<1> QED  BY <1>6, <1>7, <1>8, <1>9, <1>10

\* A step within a check: only its own file, the flags and the program counter.
LEMMA WithinCheck ==
  ASSUME ScanInv, pc \in Scanning \ {"scan"}, pc' \in Scanning \ {"scan"},
         UNCHANGED <<worldVars, row, enabled, spinners, report, log, found, skipped>>,
         runTest' \in BOOLEAN, busy' \in BOOLEAN, interrupts' \in 0 .. MaxInterrupts,
         NEW f \in {"none", "partial", "full"}, temp' = [temp EXCEPT ![Current] = f]
  PROVE  /\ ScanTypeOK' /\ Places' /\ Tallies' /\ Threads'
         /\ row \in 1 .. N /\ row' = row /\ N' = N
         /\ Current' = Current /\ Current \in Checks /\ temp'[Current] = f
         /\ \A k \in row + 1 .. N : temp'[order[k]] = "none"
<1> USE DEF ScanInv
<1>1. /\ row \in 1 .. N /\ row' = row /\ N' = N /\ Current' = Current /\ enabled[Current]
  <2>1. row \in Nat /\ row >= 1
    BY DEF ScanTypeOK
  <2> QED  BY <2>1, ScanSize DEF Places, Current, worldVars, N
<1>2. /\ Current \in Checks
      /\ \A k \in 1 .. N : order[k] \in Checks /\ (order[k] = Current => k = row)
  BY <1>1, OrderShape DEF Current
<1>3. temp \in [Checks -> {"none", "partial", "full"}]
  BY DEF ScanTypeOK
<1>4. temp'[Current] = f /\ \A c \in Checks : c # Current => temp'[c] = temp[c]
  BY <1>2, <1>3
<1>5. \A k \in 1 .. N : k # row => temp'[order[k]] = temp[order[k]]
  BY <1>2, <1>4
<1>6. \A k \in row + 1 .. N : temp'[order[k]] = "none"
  BY <1>1, <1>5, ScanSize DEF Files
<1>7. ScanTypeOK'
  <2>1. temp' \in [Checks -> {"none", "partial", "full"}]
    BY <1>3
  <2>2. \A c \in Checks : temp'[c] # "none" => enabled'[c]
    BY <1>1, <1>4 DEF ScanTypeOK
  <2> QED  BY <1>1, <2>1, <2>2 DEF ScanTypeOK, worldVars, Scanning
<1>8. Places'
  BY <1>1, ScanSize DEF Places, Scanning
<1>9. Threads'
  BY <1>1 DEF Threads, Scanning, Closing, Ended
<1>10. Tallies'
  <2>1. Past = row - 1 /\ Past' = row - 1 /\ Past \in Nat
    BY <1>1, ScanSize DEF Past, Scanning
  <2>2. pc \notin Ended /\ Written'
    BY DEF Tallies, Written, Scanning, Closing, Ended
  <2>3. \A k \in 1 .. Past : temp'[order[k]] = temp[order[k]]
    BY <1>1, <1>5, <2>1, ScanSize
  <2> QED  BY <2>1, <2>2, <2>3, TalliesKept DEF worldVars
<1> QED  BY <1>1, <1>2, <1>4, <1>6, <1>7, <1>8, <1>9, <1>10

LEMMA LaunchStep == ScanInv /\ Launch => ScanInv'
<1> SUFFICES ASSUME ScanInv, Launch PROVE ScanInv'
  OBVIOUS
<1>1. pc = "starting" /\ pc' = "running"
  BY DEF Launch
<1>2. /\ temp' = [temp EXCEPT ![Current] = temp[Current]]
      /\ temp[Current] \in {"none", "partial", "full"}
  <2>1. Current \in Checks
    BY <1>1, OrderShape, ScanSize DEF Current, ScanInv, Places, Scanning, ScanTypeOK
  <2>2. temp \in [Checks -> {"none", "partial", "full"}] /\ temp' = temp
    BY DEF ScanInv, ScanTypeOK, Launch, fileVars
  <2> QED  BY <2>1, <2>2
<1>3. temp[Current] = "none" /\ runTest
  <2>1. row <= N
    BY <1>1 DEF ScanInv, Places, Scanning
  <2> QED  BY <1>1, <2>1 DEF ScanInv, Files, Ended
<1>4. /\ ScanTypeOK' /\ Places' /\ Tallies' /\ Threads'
      /\ row' = row /\ N' = N /\ Current' = Current /\ temp'[Current] = temp[Current]
      /\ \A k \in row + 1 .. N : temp'[order[k]] = "none"
  BY <1>1, <1>2, WithinCheck DEF Launch, Scanning, fileVars, ScanInv, ScanTypeOK
<1>5. Files'
  BY <1>1, <1>3, <1>4 DEF Files, Launch, worldVars
<1> QED  BY <1>4, <1>5 DEF ScanInv

LEMMA ShellOpensStep == ScanInv /\ ShellOpens => ScanInv'
<1> SUFFICES ASSUME ScanInv, ShellOpens PROVE ScanInv'
  OBVIOUS
<1>1. pc = "running" /\ pc' = "running" /\ temp' = [temp EXCEPT ![Current] = "partial"]
  BY DEF ShellOpens
<1>2. /\ ScanTypeOK' /\ Places' /\ Tallies' /\ Threads'
      /\ row' = row /\ N' = N /\ Current' = Current /\ temp'[Current] = "partial"
      /\ \A k \in row + 1 .. N : temp'[order[k]] = "none"
  BY <1>1, WithinCheck DEF ShellOpens, Scanning, ScanInv, ScanTypeOK
<1>3. Files'
  BY <1>1, <1>2 DEF ScanInv, Files, ShellOpens, worldVars, Ended
<1> QED  BY <1>2, <1>3 DEF ScanInv

LEMMA CheckDoneStep == ScanInv /\ CheckDone => ScanInv'
<1> SUFFICES ASSUME ScanInv, CheckDone PROVE ScanInv'
  OBVIOUS
<1>1. pc = "running" /\ pc' = "stopping" /\ temp' = [temp EXCEPT ![Current] = "full"]
  BY DEF CheckDone
<1>2. runTest /\ runTest' = TRUE
  BY <1>1 DEF ScanInv, Files, Ended, ScanTypeOK, CheckDone
<1>3. /\ ScanTypeOK' /\ Places' /\ Tallies' /\ Threads'
      /\ row' = row /\ N' = N /\ Current' = Current /\ temp'[Current] = "full"
      /\ \A k \in row + 1 .. N : temp'[order[k]] = "none"
  BY <1>1, <1>2, WithinCheck DEF CheckDone, Scanning, ScanInv, ScanTypeOK
<1>4. Files'
  BY <1>1, <1>2, <1>3 DEF ScanInv, Files, CheckDone, worldVars, Ended
<1> QED  BY <1>3, <1>4 DEF ScanInv

LEMMA CheckFailsStep == ScanInv /\ CheckFails => ScanInv'
<1> SUFFICES ASSUME ScanInv, CheckFails PROVE ScanInv'
  OBVIOUS
<1>1. pc = "running" /\ pc' = "stopping" /\ temp[Current] = "none" /\ runTest' = TRUE
  BY DEF CheckFails
<1>2. temp' = [temp EXCEPT ![Current] = "none"]
  BY <1>1 DEF CheckFails, fileVars, ScanInv, ScanTypeOK
<1>3. /\ ScanTypeOK' /\ Places' /\ Tallies' /\ Threads'
      /\ row' = row /\ N' = N /\ Current' = Current /\ temp'[Current] = "none"
      /\ \A k \in row + 1 .. N : temp'[order[k]] = "none"
  BY <1>1, <1>2, WithinCheck DEF CheckFails, Scanning, fileVars, ScanInv, ScanTypeOK
<1>4. Files'
  BY <1>1, <1>3 DEF ScanInv, Files, CheckFails, worldVars, Ended
<1> QED  BY <1>3, <1>4 DEF ScanInv

LEMMA StopSpinnerStep == ScanInv /\ StopSpinner => ScanInv'
<1> SUFFICES ASSUME ScanInv, StopSpinner PROVE ScanInv'
  OBVIOUS
<1>1. pc = "stopping" /\ pc' = "settling" /\ busy' = FALSE /\ runTest' = runTest
  BY DEF StopSpinner
<1>2. /\ temp' = [temp EXCEPT ![Current] = temp[Current]]
      /\ temp[Current] \in {"none", "partial", "full"}
  <2>1. Current \in Checks
    BY <1>1, OrderShape, ScanSize DEF Current, ScanInv, Places, Scanning, ScanTypeOK
  <2>2. temp \in [Checks -> {"none", "partial", "full"}] /\ temp' = temp
    BY DEF ScanInv, ScanTypeOK, StopSpinner, fileVars
  <2> QED  BY <2>1, <2>2
<1>3. /\ runTest \in BOOLEAN
      /\ IF runTest THEN temp[Current] \in {"none", "full"} ELSE temp[Current] # "full"
  BY <1>1 DEF ScanInv, Files, ScanTypeOK
<1>4. /\ ScanTypeOK' /\ Places' /\ Tallies' /\ Threads'
      /\ row' = row /\ N' = N /\ Current' = Current /\ temp'[Current] = temp[Current]
      /\ \A k \in row + 1 .. N : temp'[order[k]] = "none"
  BY <1>1, <1>2, <1>3, WithinCheck DEF StopSpinner, Scanning, fileVars, ScanInv, ScanTypeOK
<1>5. Files'
  BY <1>1, <1>3, <1>4 DEF Files, StopSpinner, worldVars, Ended
<1> QED  BY <1>4, <1>5 DEF ScanInv

LEMMA SettleStep == ScanInv /\ Settle => ScanInv'
<1> SUFFICES ASSUME ScanInv, Settle PROVE ScanInv'
  OBVIOUS
<1>1. /\ pc = "settling" /\ row <= N /\ runTest' = TRUE
      /\ IF runTest THEN temp[Current] \in {"none", "full"} ELSE temp[Current] # "full"
  BY DEF Settle, ScanInv, Places, Files, Scanning
<1>2. CASE runTest
  <2>1. temp' = [temp EXCEPT ![Current] = temp[Current]] /\ temp[Current] \in {"none", "full"}
    BY <1>1, <1>2 DEF Settle, fileVars, ScanInv, ScanTypeOK
  <2>2. pc' = "reading" /\ row' = row /\ skipped' = skipped
    BY <1>2 DEF Settle
  <2>3. /\ ScanTypeOK' /\ Places' /\ Tallies' /\ Threads'
        /\ row' = row /\ N' = N /\ Current' = Current /\ temp'[Current] = temp[Current]
        /\ \A k \in row + 1 .. N : temp'[order[k]] = "none"
    BY <1>1, <2>1, <2>2, WithinCheck DEF Settle, Scanning, fileVars, ScanInv, ScanTypeOK
  <2>4. Files'
    BY <1>1, <2>1, <2>2, <2>3 DEF Files, Settle, worldVars
  <2> QED  BY <2>3, <2>4 DEF ScanInv
<1>3. CASE ~runTest
  <2>1. pc' = "scan" /\ row' = row + 1 /\ skipped' = skipped + 1 /\ temp[Current] # "full"
    BY <1>1, <1>3 DEF Settle
  <2> QED  BY <1>1, <2>1, OnToNext DEF Settle
<1> QED  BY <1>2, <1>3

\* No more spinner threads than checks.
LEMMA ThreadsBound ==
  ASSUME ScanInv
  PROVE  /\ spinners.reading \in Nat /\ spinners.sleeping \in Nat
         /\ spinners.reading + spinners.sleeping <= N
<1> USE DEF ScanInv
<1>1. /\ spinners \in [reading : 0 .. N, sleeping : 0 .. N]
      /\ row \in Nat /\ Len(Precheck) \in Nat
  BY ConstantsAssumption DEF ScanTypeOK
<1>2. CASE pc = "precheck"
  BY <1>1, <1>2, ScanSize DEF Threads, Scanning, Closing, Ended
<1>3. CASE pc \in Scanning
  <2>1. row <= N + 1 /\ (pc # "scan" => row <= N)
    BY <1>3 DEF Places, Scanning
  <2> QED  BY <1>1, <1>3, <2>1, ScanSize DEF Threads, Scanning, Closing, Ended
<1>4. CASE pc \in Closing \cup Ended
  BY <1>1, <1>4, ScanSize DEF Threads, Scanning, Closing, Ended
<1> QED  BY <1>2, <1>3, <1>4 DEF ScanTypeOK, Scanning, Closing, Ended

\* The main thread ends, of an interrupt or an exception.
LEMMA EndsHere ==
  ASSUME ScanInv, pc \notin Ended, pc' \in Ended, interrupts' \in 0 .. MaxInterrupts,
         UNCHANGED <<worldVars, row, enabled, runTest, busy, spinners, fileVars, found, skipped>>
  PROVE  ScanInv'
<1> USE DEF ScanInv
<1>1. N' = N
  BY DEF N
<1>2. ScanTypeOK'
  BY <1>1 DEF ScanTypeOK, worldVars, fileVars
<1>3. Places' /\ Files' /\ Tallies'
  BY DEF Places, Files, Tallies, Scanning, Ended
<1>4. Threads'
  BY <1>1, ThreadsBound DEF Threads, Scanning, Closing, Ended
<1> QED  BY <1>2, <1>3, <1>4

LEMMA ReadOutputStep == ScanInv /\ ReadOutput => ScanInv'
<1> SUFFICES ASSUME ScanInv, ReadOutput PROVE ScanInv'
  OBVIOUS
<1>1. pc = "reading" /\ row <= N /\ temp[Current] \in {"none", "full"} /\ runTest
  BY DEF ReadOutput, ScanInv, Places, Files, Scanning, Ended
<1>2. CASE temp[Current] = "none" \/ verdict[Current] = "undecodable"
  <2>1. pc' = "died" /\ row' = row /\ found' = found
    BY <1>2 DEF ReadOutput
  <2> QED  BY <1>1, <2>1, EndsHere DEF ReadOutput, Ended, ScanInv, ScanTypeOK
<1>3. CASE ~(temp[Current] = "none" \/ verdict[Current] = "undecodable")
  <2>1. /\ pc' = "scan" /\ row' = row + 1
        /\ found' = IF verdict[Current] = "vulnerable" THEN Append(found, Current) ELSE found
    BY <1>3 DEF ReadOutput
  <2> QED  BY <1>1, <1>3, <2>1, OnToNext DEF ReadOutput, ScanInv, ScanTypeOK
<1> QED  BY <1>2, <1>3

-----------------------------------------------------------------------------
\* The report and the log

\* A step after the scan leaves the counter, the list and the files as they are.
LEMMA AfterScan ==
  ASSUME ScanInv, pc \in Closing, pc' \in Closing, row' \in 1 .. N + Len(Precheck) + 1, Written',
         report' \in Seq(Checks \X {"none", "partial", "full"}), log' \in Seq(Checks),
         pc' = "report" => row' <= Len(found) + 1,
         pc' = "log" => row' <= N + 1,
         UNCHANGED <<worldVars, enabled, runTest, busy, spinners, temp, found, skipped>>,
         interrupts' \in 0 .. MaxInterrupts
  PROVE  ScanInv'
<1> USE DEF ScanInv
<1>1. N' = N
  BY DEF N
<1>2. ScanTypeOK'
  BY <1>1 DEF ScanTypeOK, worldVars, Closing
<1>3. Places'
  BY <1>1 DEF Places, Scanning, Closing
<1>4. Files'
  BY DEF Files, Scanning, Closing, Ended
<1>5. Tallies'
  <2>1. Past = N /\ Past' = N /\ pc \notin Ended
    BY <1>1 DEF Past, Scanning, Closing, Ended
  <2> QED  BY <2>1, ScanSize, TalliesKept DEF worldVars
<1>6. Threads'
  BY <1>1, ThreadsBound DEF Threads, Scanning, Closing, Ended
<1> QED  BY <1>2, <1>3, <1>4, <1>5, <1>6

LEMMA CtrlCStep == ScanInv /\ CtrlC => ScanInv'
<1> SUFFICES ASSUME ScanInv, CtrlC PROVE ScanInv'
  OBVIOUS
<1>1. pc \notin Ended /\ interrupts' \in 0 .. MaxInterrupts
  BY ConstantsAssumption DEF CtrlC, ScanInv, ScanTypeOK
<1>2. CASE pc = "running"
  <2>1. pc' = "stopping" /\ runTest' = FALSE
    BY <1>2 DEF CtrlC, SkipsCheck, QuitsStop, QuitsPrecheck, CutsLog, Dies
  <2>2. /\ temp' = [temp EXCEPT ![Current] = temp[Current]]
        /\ temp[Current] \in {"none", "partial", "full"}
    <3>1. Current \in Checks
      BY <1>2, OrderShape, ScanSize DEF Current, ScanInv, Places, Scanning, ScanTypeOK
    <3>2. temp \in [Checks -> {"none", "partial", "full"}] /\ temp' = temp
      BY DEF ScanInv, ScanTypeOK, CtrlC, fileVars
    <3> QED  BY <3>1, <3>2
  <2>3. temp[Current] # "full"
    BY <1>2 DEF ScanInv, Files
  <2>4. /\ ScanTypeOK' /\ Places' /\ Tallies' /\ Threads'
        /\ row' = row /\ N' = N /\ Current' = Current /\ temp'[Current] = temp[Current]
        /\ \A k \in row + 1 .. N : temp'[order[k]] = "none"
    BY <1>1, <1>2, <2>1, <2>2, WithinCheck DEF CtrlC, Scanning, fileVars, ScanInv, ScanTypeOK
  <2>5. Files'
    BY <2>1, <2>3, <2>4 DEF Files, CtrlC, worldVars, Ended
  <2> QED  BY <2>4, <2>5 DEF ScanInv
<1>3. CASE pc' \in Ended
  <2>1. runTest' = runTest
    BY <1>3 DEF CtrlC, SkipsCheck, QuitsStop, QuitsPrecheck, CutsLog, Dies, Ended
  <2> QED  BY <1>1, <1>3, <2>1, EndsHere DEF CtrlC
<1>4. CASE CutsLog
  <2>1. /\ pc = "log" /\ pc' = "closing"
        /\ UNCHANGED <<worldVars, row, enabled, runTest, busy, spinners, fileVars, found, skipped>>
    BY <1>4 DEF CtrlC, CutsLog
  <2>2. Written'
    BY <2>1 DEF ScanInv, Tallies, Written, Closing, Ended, fileVars
  <2> QED
    BY <1>1, <2>1, <2>2, AfterScan DEF Closing, fileVars, ScanInv, ScanTypeOK
<1> QED
  BY <1>2, <1>3, <1>4 DEF CtrlC, SkipsCheck, QuitsStop, QuitsPrecheck, Dies, Ended

LEMMA ScanDoneStep == ScanInv /\ ScanDone => ScanInv'
<1> SUFFICES ASSUME ScanInv, ScanDone PROVE ScanInv'
  OBVIOUS
<1> USE DEF ScanInv
<1>0. N' = N /\ Len(Precheck) \in Nat
  BY ConstantsAssumption DEF N
<1>1. pc = "scan" /\ pc' = "report" /\ row = N + 1 /\ row' = 1
  <2>1. row \in Nat /\ row <= N + 1
    BY DEF ScanTypeOK, Places, ScanDone, Scanning
  <2> QED  BY <2>1, ScanSize DEF ScanDone
<1>2. report = <<>> /\ runTest /\ found \in Seq(Checks)
  BY <1>1 DEF Tallies, Written, Files, Closing, Ended, ScanTypeOK
<1>3. Written'
  <2>1. report' = <<>> /\ pc' = "report"
    BY <1>1, <1>2 DEF ScanDone, fileVars
  <2>2. \A g : <<>> = [k \in 1 .. 1 - 1 |-> <<g[k], "full">>]
    OBVIOUS
  <2> QED  BY <1>1, <2>1, <2>2 DEF Written, Closing
<1>4. Tallies'
  <2>1. Past = N /\ Past' = N /\ pc \notin Ended
    BY <1>0, <1>1, ScanSize DEF Past, Scanning, Closing, Ended
  <2> QED  BY <1>3, <2>1, ScanSize, TalliesKept DEF ScanDone, worldVars, fileVars
<1>5. ScanTypeOK'
  <2>1. row' \in 1 .. N + Len(Precheck) + 1
    BY <1>0, <1>1, ScanSize
  <2> QED  BY <1>0, <1>1, <2>1 DEF ScanTypeOK, ScanDone, worldVars, fileVars
<1>6. Places'
  BY <1>0, <1>1, <1>2, ScanSize DEF Places, Scanning, ScanDone
<1>7. Files'
  BY <1>1, <1>2 DEF Files, Scanning, Ended, ScanDone
<1>8. Threads'
  BY <1>0, <1>1, ThreadsBound DEF Threads, Scanning, Closing, Ended, ScanDone
<1> QED  BY <1>4, <1>5, <1>6, <1>7, <1>8

LEMMA AppendShape ==
  ASSUME NEW S, NEW g, NEW n \in Nat, NEW x, \A k \in 1 .. n : g[k] \in S
  PROVE  LET s == [k \in 1 .. n |-> <<g[k], x>>]
         IN  Append(s, <<g[n + 1], x>>) = [k \in 1 .. n + 1 |-> <<g[k], x>>]
<1> DEFINE s == [k \in 1 .. n |-> <<g[k], x>>]
           a == <<g[n + 1], x>>
<1>1. s \in Seq(S \X {x}) /\ Len(s) = n
  OBVIOUS
<1>2. Append(s, a) = [i \in 1 .. n + 1 |-> IF i = n + 1 THEN a ELSE s[i]]
  BY <1>1
<1> QED  BY <1>2

LEMMA ReportStep == ScanInv /\ Report => ScanInv'
<1> SUFFICES ASSUME ScanInv, Report PROVE ScanInv'
  OBVIOUS
<1> USE DEF ScanInv
<1>1. pc = "report" /\ row \in Nat /\ row >= 1 /\ row <= Len(found) + 1 /\ Len(Precheck) \in Nat
  BY ConstantsAssumption DEF Report, Places, ScanTypeOK
<1>2. found \in Seq(Checks) /\ Len(found) \in Nat
  BY DEF ScanTypeOK
<1>3. Counted(N) /\ report = [k \in 1 .. row - 1 |-> <<found[k], "full">>]
  <2>1. Past = N
    BY <1>1 DEF Past, Scanning, Closing
  <2> QED  BY <1>1, <2>1 DEF Tallies, Written, Ended, Counted
<1>4. Len(found) <= N
  BY <1>3 DEF Counted
<1>5. CASE row <= Len(found)
  <2>1. /\ pc' = "report" /\ row' = row + 1 /\ found' = found
        /\ report' = Append(report, <<found[row], temp[found[row]]>>)
    BY <1>1, <1>5 DEF Report
  <2>2. found[row] \in Checks /\ temp[found[row]] = "full"
    <3>1. found[row] \in Checks /\ Contains(found, found[row])
      BY <1>1, <1>2, <1>5 DEF Contains
    <3> QED  BY <1>3, <3>1 DEF Counted, Found
  <2>3. report' = [k \in 1 .. row' - 1 |-> <<found'[k], "full">>]
    <3>1. PICK n \in Nat : n = row - 1 /\ n + 1 = row
      BY <1>1
    <3>2. \A k \in 1 .. n : found[k] \in Checks
      BY <1>1, <1>2, <1>5, <3>1
    <3>3. Append([k \in 1 .. n |-> <<found[k], "full">>], <<found[n + 1], "full">>)
            = [k \in 1 .. n + 1 |-> <<found[k], "full">>]
      BY <3>2, AppendShape
    <3>4. row' - 1 = n + 1
      BY <2>1, <3>1
    <3> QED  BY <1>3, <2>1, <2>2, <3>1, <3>3, <3>4
  <2>4. report' \in Seq(Checks \X {"none", "partial", "full"})
    BY <2>1, <2>2 DEF ScanTypeOK
  <2>5. row' \in 1 .. N + Len(Precheck) + 1 /\ row' <= Len(found) + 1
    BY <1>1, <1>2, <1>4, <1>5, <2>1, ScanSize
  <2>6. Written'
    BY <2>1, <2>3 DEF Written, Closing
  <2> QED  BY <1>1, <2>1, <2>4, <2>5, <2>6, AfterScan DEF Report, Closing, ScanTypeOK
<1>6. CASE ~(row <= Len(found))
  <2>1. pc' = "log" /\ row' = 1 /\ report' = report /\ found' = found
    BY <1>1, <1>6 DEF Report
  <2>2. 1 .. row - 1 = DOMAIN found
    BY <1>1, <1>2, <1>6
  <2>3. report' = [k \in DOMAIN found' |-> <<found'[k], "full">>]
    BY <1>3, <2>1, <2>2
  <2>4. row' \in 1 .. N + Len(Precheck) + 1 /\ row' <= N + 1
    BY <1>1, <2>1, ScanSize
  <2>5. Written'
    BY <2>1, <2>3 DEF Written, Closing
  <2> QED  BY <1>1, <2>1, <2>4, <2>5, AfterScan DEF Report, Closing, ScanTypeOK
<1> QED  BY <1>5, <1>6

LEMMA WriteLogStep == ScanInv /\ WriteLog => ScanInv'
<1> SUFFICES ASSUME ScanInv, WriteLog PROVE ScanInv'
  OBVIOUS
<1> USE DEF ScanInv
<1>1. /\ pc = "log" /\ row \in Nat /\ row >= 1 /\ row <= N + 1 /\ Len(Precheck) \in Nat
      /\ row \in 1 .. N + Len(Precheck) + 1
  BY ConstantsAssumption DEF WriteLog, Places, ScanTypeOK
<1>2. Written /\ UNCHANGED <<report, found>>
  BY <1>1 DEF Tallies, Ended, WriteLog
<1>3. CASE row <= N /\ pc' = "log" /\ row' = row + 1 /\ log' = Append(log, Current)
  <2>1. pc' = "log" /\ row' = row + 1 /\ log' = Append(log, Current)
    BY <1>3
  <2>2. Current \in Checks
    BY <1>1, <1>3, OrderShape, ScanSize DEF Current
  <2>3. log' \in Seq(Checks)
    BY <2>1, <2>2 DEF ScanTypeOK
  <2>4. row' \in 1 .. N + Len(Precheck) + 1 /\ row' <= N + 1
    BY <1>1, <1>3, <2>1, ScanSize
  <2>5. Written'
    BY <1>1, <1>2, <2>1 DEF Written, Closing
  <2> QED  BY <1>1, <1>2, <2>1, <2>3, <2>4, <2>5, AfterScan DEF WriteLog, Closing, ScanTypeOK
<1>4. CASE pc' = "closing" /\ row' = row /\ log' = log
  <2>1. pc' = "closing" /\ row' = row /\ log' = log
    BY <1>4
  <2>2. Written'
    BY <1>1, <1>2, <2>1 DEF Written, Closing
  <2> QED  BY <1>1, <1>2, <2>1, <2>2, AfterScan DEF WriteLog, Closing, ScanTypeOK
<1> QED  BY <1>1, <1>3, <1>4 DEF WriteLog

LEMMA CloseStep == ScanInv /\ Close => ScanInv'
<1> SUFFICES ASSUME ScanInv, Close PROVE ScanInv'
  OBVIOUS
<1> USE DEF ScanInv
<1>1. pc = "closing" /\ pc' = "ended" /\ N' = N
  BY DEF Close, N
<1>2. temp' = [c \in Checks |-> "none"]
  BY DEF Close
<1>3. ScanTypeOK'
  BY <1>1, <1>2 DEF ScanTypeOK, Close, worldVars, Ended
<1>4. Places' /\ Files' /\ Tallies'
  BY <1>1 DEF Places, Files, Tallies, Scanning, Ended
<1>5. Threads'
  BY <1>1, ThreadsBound DEF Threads, Close, Scanning, Closing, Ended
<1> QED  BY <1>3, <1>4, <1>5

-----------------------------------------------------------------------------
\* The spinner threads

LEMMA SpinnersTurn ==
  ASSUME ScanInv, UNCHANGED <<worldVars, pc, row, enabled, runTest, busy, fileVars, found,
                              skipped, interrupts>>,
         NEW r \in Nat, NEW s \in Nat, r + s <= spinners.reading + spinners.sleeping,
         spinners' = [reading |-> r, sleeping |-> s]
  PROVE  ScanInv'
<1> USE DEF ScanInv
<1>1. N' = N /\ Current' = Current /\ Past' = Past
  BY DEF N, Current, Past, worldVars
<1>2. /\ spinners.reading \in Nat /\ spinners.sleeping \in Nat
      /\ spinners.reading + spinners.sleeping <= N
  BY ThreadsBound
<1>3. spinners' \in [reading : 0 .. N, sleeping : 0 .. N]
  BY <1>2, ScanSize
<1>4. ScanTypeOK'
  BY <1>1, <1>3 DEF ScanTypeOK, worldVars, fileVars
<1>5. Places' /\ Files'
  BY <1>1 DEF Places, Files, worldVars, fileVars
<1>6. Tallies'
  <2>1. Unfinished(Past)' = Unfinished(Past) /\ Found(Past)' = Found(Past)
    BY <1>1 DEF Unfinished, Found, worldVars, fileVars
  <2> QED  BY <1>1, <2>1 DEF Tallies, Counted, Written, fileVars
<1>7. Threads'
  <2>1. spinners'.reading + spinners'.sleeping <= spinners.reading + spinners.sleeping
    OBVIOUS
  <2>2. spinners'.reading \in Nat /\ spinners'.sleeping \in Nat /\ row \in Nat
    BY DEF ScanTypeOK
  <2> QED  BY <1>1, <1>2, <2>1, <2>2, ScanSize DEF Threads, ScanTypeOK, Scanning, Closing, Ended
<1> QED  BY <1>4, <1>5, <1>6, <1>7

LEMMA SpinnerReadsStep == ScanInv /\ SpinnerReads => ScanInv'
<1> SUFFICES ASSUME ScanInv, SpinnerReads PROVE ScanInv'
  OBVIOUS
<1>1. spinners.reading \in Nat /\ spinners.sleeping \in Nat /\ spinners.reading > 0
  BY ThreadsBound DEF SpinnerReads
<1>2. CASE busy
  BY <1>1, <1>2, SpinnersTurn DEF SpinnerReads
<1>3. CASE ~busy
  BY <1>1, <1>3, SpinnersTurn DEF SpinnerReads
<1> QED  BY <1>2, <1>3

LEMMA SpinnerWakesStep == ScanInv /\ SpinnerWakes => ScanInv'
<1> SUFFICES ASSUME ScanInv, SpinnerWakes PROVE ScanInv'
  OBVIOUS
<1>1. spinners.reading \in Nat /\ spinners.sleeping \in Nat /\ spinners.sleeping > 0
  BY ThreadsBound DEF SpinnerWakes
<1> QED  BY <1>1, SpinnersTurn DEF SpinnerWakes

-----------------------------------------------------------------------------

LEMMA ScanFrame == ScanInv /\ UNCHANGED scanVars => ScanInv'
<1> SUFFICES ASSUME ScanInv, UNCHANGED scanVars PROVE ScanInv'
  OBVIOUS
<1>1. /\ UNCHANGED <<worldVars, pc, row, enabled, runTest, busy, fileVars, found, skipped>>
      /\ interrupts' = interrupts
      /\ spinners' = spinners
  BY DEF scanVars
<1>2. spinners = [reading |-> spinners.reading, sleeping |-> spinners.sleeping]
  BY DEF ScanInv, ScanTypeOK
<1>3. spinners.reading \in Nat /\ spinners.sleeping \in Nat
  BY ThreadsBound
<1> QED  BY <1>1, <1>2, <1>3, SpinnersTurn

LEMMA ScanStep == ScanInv /\ [ScanNext]_scanVars => ScanInv'
  BY PrecheckToolStep, SkipStep, DeployStep, LaunchStep, ShellOpensStep, CheckDoneStep,
     CheckFailsStep, StopSpinnerStep, SettleStep, ReadOutputStep, ScanDoneStep, ReportStep, WriteLogStep,
     CloseStep, CtrlCStep, SpinnerReadsStep, SpinnerWakesStep, ScanFrame
  DEF ScanNext, Main

-----------------------------------------------------------------------------
(* WebScan: what follows                                                     *)

\* Wherever Ctrl+C strikes and whatever is installed, the counter, the findings
\* and the files agree for the checks that are through.
THEOREM ScanInvariance == ScanSpec => []ScanInv
  BY ScanInitial, ScanStep, PTL DEF ScanSpec

\* A scan is well typed in every reachable state: no more spinner threads than
\* checks, and a file only for a check that is enabled.
THEOREM ScanTypeCorrect == ScanSpec => []ScanTypeOK
  BY ScanInvariance, PTL DEF ScanInv

\* For every set of checks and any interrupts, the number of skipped checks in
\* the summary is the number of checks without a complete output.
THEOREM SkippedCorrect == ScanSpec => []SkippedAddsUp
<1>1. ScanInv => SkippedAddsUp
  <2> SUFFICES ASSUME ScanInv, pc \in Closing
               PROVE  skipped = Cardinality({c \in Checks : temp[c] # "full"})
    BY DEF SkippedAddsUp, Closing
  <2>1. skipped = Cardinality(Unfinished(N))
    BY DEF ScanInv, Tallies, Counted, Past, Scanning, Closing, Ended
  <2>2. Unfinished(N) = {c \in Checks : temp[c] # "full"}
    BY OrderShape DEF ScanInv, Unfinished
  <2> QED  BY <2>1, <2>2
<1> QED  BY <1>1, ScanInvariance, PTL

\* For every set of checks and any interrupts, the report has exactly the checks
\* that found something, each with its complete output.
THEOREM ReportCorrect == ScanSpec => []ReportIsBacked
<1>1. ScanInv => ReportIsBacked
  <2> SUFFICES ASSUME ScanInv, pc \in {"log", "closing"}
               PROVE  /\ report = [k \in DOMAIN found |-> <<found[k], "full">>]
                      /\ \A c \in Checks :
                           Contains(found, c) <=> temp[c] = "full" /\ verdict[c] = "vulnerable"
    BY DEF ReportIsBacked
  <2>1. /\ report = [k \in DOMAIN found |-> <<found[k], "full">>]
        /\ \A c \in Checks : Contains(found, c) <=> c \in Found(N)
    BY DEF ScanInv, Tallies, Counted, Written, Past, Scanning, Closing, Ended
  <2>2. \A c \in Checks : c \in Found(N) <=> temp[c] = "full" /\ verdict[c] = "vulnerable"
    BY OrderShape DEF ScanInv, Found
  <2> QED  BY <2>1, <2>2
<1> QED  BY <1>1, ScanInvariance, PTL
=============================================================================
