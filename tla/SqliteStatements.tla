-------------------------- MODULE SqliteStatements --------------------------
(***************************************************************************)
(* One prepared Statement and the ResultSets over it.                      *)
(*                                                                         *)
(* A ResultSet has no cursor of its own: every one of a statement steps    *)
(* the same virtual machine, whose end is remembered in done_p.  next is   *)
(* two native calls, step and done?, and Ruby may switch threads between   *)
(* them.  The statement keeps its bindings over a reset, and the column    *)
(* names it read first, also when the schema has changed since.            *)
(*                                                                         *)
(* SQLite reports the error of the last step once more from sqlite3_reset, *)
(* starts a statement again that is stepped after an error, and refuses to *)
(* bind one that is not reset.  The columns of a query are its parameters, *)
(* or what a function returns of them.  Closing is the matter of           *)
(* SqliteHandles.                                                          *)
(***************************************************************************)
EXTENDS Naturals, Sequences, FiniteSets, SqliteValues

CONSTANTS
  Sets,       \* ResultSets, each used by a thread of its own
  Values,     \* what a parameter can be bound to
  Internals,  \* what Encoding.default_internal may be, "none" for nil
  Unset,      \* a parameter that is not bound, or nothing promised of it
  Params,     \* number of parameters of the statement
  MaxRows,    \* bound on the rows of an execution
  MaxCalls,   \* bound on the calls of execute and reset
  MaxSchemas  \* bound on the versions of the schema

\* A value bind_param refuses.
Bad == Other

ASSUME ConstantsAssumption ==
  /\ IsFiniteSet(Sets) /\ Sets # {}
  /\ Values \subseteq Given /\ Bad \notin Values
  /\ Internals \subseteq Encodings \cup {"none"}
  /\ Unset \notin Values \cup {Bad}
  /\ Params \in Nat /\ MaxRows \in Nat /\ MaxCalls \in Nat
  /\ MaxSchemas \in Nat \ {0}

VARIABLES
  kind,     \* what the SQL is and who uses the statement
  schema,   \* version of the schema
  vm,       \* SQLite's virtual machine
  done,     \* done_p
  columns,  \* the version @columns was read at, 0 before
  set,      \* the ResultSets
  shown,    \* the columns of the row that step has returned to each
  ghost     \* what happened, for the properties

vars == <<kind, schema, vm, done, columns, set, shown, ghost>>

\* A statement without columns writes.  It belongs to one thread, is shared by
\* several, or is the one Database#execute or execute_batch prepares.
Kinds == [writes : BOOLEAN, use : {"own", "shared", "execute", "batch"}]

Binding == [1 .. Params -> Values \cup {Unset}]
Unbound == [k \in 1 .. Params |-> Unset]
ArgLists == UNION {[1 .. n -> Values \cup {Bad}] : n \in 0 .. Params + 1}

Row   == [params : Binding, pos : 1 .. MaxRows, cols : 1 .. MaxSchemas]
NoRow == [params |-> Unbound, pos |-> 0, cols |-> 0]

\* A column, and whether a function has returned it.
Columns   == [1 .. Params -> [value : RubyValues, called : BOOLEAN]]
NoColumns == [k \in 1 .. Params |-> [value |-> Nil, called |-> FALSE]]

\* Between calls: execute or next has returned, next returned nil, the last
\* call raised.  Inside one: before bind_params, before the step of execute or
\* execute_batch, between step and done? of next.
Resting == {"none", "idle", "ended", "failed"}
Inside  == {"bind", "step", "check"}

NoSet == [pc |-> "none", call |-> "none", args |-> <<>>, asked |-> Unbound,
          row |-> NoRow, got |-> <<>>, ran |-> 0]

ResultSet ==
  [pc : Resting \cup Inside, call : {"none", "execute", "reset"}, args : ArgLists,
   asked : Binding, row : Row \cup {NoRow},
   got : Seq([row : Row \cup {NoRow}, fields : 1 .. MaxSchemas]), ran : Nat]

Machine == [pc : {"reset", "row", "done", "error"}, pos : 0 .. MaxRows,
            params : Binding, cols : 1 .. MaxSchemas]

\* Every variable has its type, and done_p is set exactly when SQLite has
\* answered DONE since the last reset.
TypeOK ==
  /\ kind \in Kinds
  /\ schema \in 1 .. MaxSchemas
  /\ vm \in Machine
  /\ done \in BOOLEAN /\ (done <=> vm.pc = "done")
  /\ columns \in 0 .. MaxSchemas
  /\ set \in [Sets -> ResultSet]
  /\ shown \in [Sets -> Columns]
  /\ ghost \in [calls : 0 .. MaxCalls, lost : Nat, resets : Nat, effects : Nat]

Init ==
  /\ kind \in Kinds
  /\ schema = 1
  /\ vm = [pc |-> "reset", pos |-> 0, params |-> Unbound, cols |-> 1]
  /\ done = FALSE
  /\ columns = 0
  /\ set = [r \in Sets |-> NoSet]
  /\ shown = [r \in Sets |-> NoColumns]
  /\ ghost = [calls |-> 0, lost |-> 0, resets |-> 0, effects |-> 0]

-----------------------------------------------------------------------------
(* The application.  A thread that owns the statement makes one call at a  *)
(* time, drops a ResultSet when it executes the statement again, and after *)
(* an exception executes or resets before it asks for a row.               *)

Shared == kind.use = "shared"

MayCall(r) ==
  /\ kind.use \in {"own", "shared"} /\ ghost.calls < MaxCalls
  /\ set[r].pc \in Resting
  /\ Shared \/ \A q \in Sets : set[q].pc \in Resting

\* What is left of the ResultSets when the statement is executed.
Kept == IF Shared THEN set ELSE [q \in Sets |-> NoSet]

-----------------------------------------------------------------------------
(* Statement#reset! and Statement#bind_params                              *)

\* sqlite3_reset always resets; done_p is only cleared when it answers OK.
ResetRaises == vm.pc = "error"

Reset ==
  /\ vm' = [vm EXCEPT !.pc = "reset", !.pos = 0]
  /\ done' = IF ResetRaises THEN done ELSE FALSE

\* What cannot be bound: SQLite refuses an index out of range, and any index
\* unless the statement is reset.
Refused(args, k) == args[k] = Bad \/ k > Params \/ vm.pc # "reset"

BindRaises(args) == \E k \in DOMAIN args : Refused(args, k)

\* The parameters before the first that is refused are bound, the others keep
\* what they were bound to.
Bound(args) ==
  [k \in 1 .. Params |->
     IF k \in DOMAIN args /\ \A j \in 1 .. k : ~Refused(args, j) THEN args[k]
     ELSE vm.params[k]]

\* What the call asks for: the arguments it gives, else what was asked before.
Asked(args, before) ==
  IF Shared THEN Unbound
  ELSE [k \in 1 .. Params |->
          IF k \in DOMAIN args /\ args[k] \in Values THEN args[k] ELSE before[k]]

-----------------------------------------------------------------------------
(* Statement#step                                                          *)

\* A statement that starts, after an error too, is compiled for the schema.
Starts == vm.pc \in {"reset", "error"}

StepsTo(pc) ==
  vm' = [vm EXCEPT !.pc = pc,
                   !.pos = (IF Starts THEN 0 ELSE @) + (IF pc = "row" THEN 1 ELSE 0),
                   !.cols = IF Starts THEN schema ELSE @]

\* What SQLite stepped to.
Stepped == [params |-> vm'.params, pos |-> vm'.pos, cols |-> vm'.cols]

\* Mutation of StepRow: the end is looked for together with the last row.
BugLookAhead ==
  /\ ~done /\ ~kind.writes /\ (IF Starts THEN 0 ELSE vm.pos) < MaxRows
  /\ \/ StepsTo("row") /\ UNCHANGED done
     \/ /\ vm' = [vm EXCEPT !.pc = "done", !.pos = (IF Starts THEN 0 ELSE @) + 1]
        /\ done' = TRUE

StepRow ==
  /\ ~done /\ ~kind.writes /\ (IF Starts THEN 0 ELSE vm.pos) < MaxRows
  /\ StepsTo("row")
  /\ UNCHANGED done

\* Mutation of StepDone: done_p is not set.
BugForgetsDone == StepsTo("done") /\ UNCHANGED done

StepDone == ~done /\ StepsTo("done") /\ done' = TRUE

StepFails == ~done /\ StepsTo("error") /\ UNCHANGED done

\* done_p: step answers nil and does not ask SQLite.
StepNil == done /\ UNCHANGED <<vm, done>>

\* A write has taken effect when SQLite is done.
Ran(r, rec) == [rec EXCEPT !.ran = IF kind.writes THEN @ + 1 ELSE @]
Counted == [ghost EXCEPT !.effects = IF kind.writes THEN @ + 1 ELSE @]

-----------------------------------------------------------------------------
(* Statement#execute, ResultSet#reset                                      *)

\* Mutation of Execute: only a statement that is done is reset.
BugResetIfDone(r, args) ==
  /\ MayCall(r)
  /\ IF done THEN Reset ELSE UNCHANGED <<vm, done>>
  /\ set' = [Kept EXCEPT ![r] = [NoSet EXCEPT !.pc = "bind", !.call = "execute",
                                              !.args = args, !.asked = Asked(args, Unbound)]]
  /\ ghost' = [ghost EXCEPT !.calls = @ + 1, !.lost = 0, !.resets = @ + 1]
  /\ UNCHANGED <<kind, schema, columns, shown>>

\* reset! if active? || done?, which is always so.
Execute(r, args) ==
  /\ MayCall(r)
  /\ Reset
  /\ set' = [Kept EXCEPT
               ![r] = IF ResetRaises THEN NoSet
                      ELSE [NoSet EXCEPT !.pc = "bind", !.call = "execute",
                                         !.args = args, !.asked = Asked(args, Unbound)]]
  /\ ghost' = [ghost EXCEPT !.calls = @ + 1, !.lost = 0,
                            !.resets = IF ResetRaises THEN @ ELSE @ + 1]
  /\ UNCHANGED <<kind, schema, columns, shown>>

\* ResultSet#reset
ResetSet(r, args) ==
  /\ MayCall(r) /\ set[r].pc # "none"
  /\ Reset
  /\ set' = [set EXCEPT
               ![r] = IF ResetRaises THEN [@ EXCEPT !.pc = "failed"]
                      ELSE [@ EXCEPT !.pc = "bind", !.call = "reset", !.args = args,
                                     !.asked = Asked(args, set[r].asked),
                                     !.got = <<>>, !.ran = 0]]
  /\ ghost' = [ghost EXCEPT !.calls = @ + 1, !.lost = 0,
                            !.resets = IF ResetRaises THEN @ ELSE @ + 1]
  /\ UNCHANGED <<kind, schema, columns, shown>>

\* bind_params of execute and reset.  A ResultSet whose reset raised here has
\* lost what its parameters were.
Bind(r) ==
  /\ set[r].pc = "bind"
  /\ vm' = [vm EXCEPT !.params = Bound(set[r].args)]
  /\ set' = [set EXCEPT
               ![r] = IF BindRaises(set[r].args)
                      THEN IF set[r].call = "execute" THEN NoSet
                           ELSE [@ EXCEPT !.pc = "failed", !.args = <<>>, !.asked = Unbound]
                      ELSE [@ EXCEPT !.args = <<>>,
                                     !.pc = IF set[r].call = "execute" THEN "step"
                                            ELSE "idle"]]
  /\ UNCHANGED <<kind, schema, done, columns, shown, ghost>>

\* step if 0 == column_count
FirstStep(r) ==
  /\ set[r].pc = "step" /\ kind.use # "batch"
  /\ IF ~kind.writes
     THEN set' = [set EXCEPT ![r].pc = "idle"] /\ UNCHANGED <<vm, done, ghost>>
     ELSE \/ /\ StepDone
             /\ set' = [set EXCEPT ![r] = Ran(r, [@ EXCEPT !.pc = "idle"])]
             /\ ghost' = Counted
          \/ StepFails /\ set' = [set EXCEPT ![r] = NoSet] /\ UNCHANGED ghost
          \/ StepNil /\ set' = [set EXCEPT ![r].pc = "idle"] /\ UNCHANGED ghost
  /\ UNCHANGED <<kind, schema, columns, shown>>

-----------------------------------------------------------------------------
(* Database#execute and Database#execute_batch prepare a statement of      *)
(* their own.                                                              *)

Fresh(r) == ghost.calls = 0 /\ \A q \in Sets : set[q] = NoSet

\* columns is read before the first step.  When bind_params raises, prepare
\* closes the statement.
DatabaseExecute(r, args) ==
  /\ kind.use = "execute" /\ Fresh(r) /\ ghost.calls < MaxCalls
  /\ vm' = [vm EXCEPT !.params = Bound(args)]
  /\ IF BindRaises(args) THEN UNCHANGED <<set, columns>>
     ELSE /\ set' = [set EXCEPT ![r] = [NoSet EXCEPT !.pc = "idle",
                                                     !.asked = Asked(args, Unbound)]]
          /\ columns' = vm.cols
  /\ ghost' = [ghost EXCEPT !.calls = @ + 1, !.resets = @ + 1]
  /\ UNCHANGED <<kind, schema, done, shown>>

\* Bound only if there are as many values as parameters.
Batch(r, args) ==
  /\ kind.use = "batch" /\ Fresh(r) /\ ghost.calls < MaxCalls
  /\ IF Len(args) # Params
     THEN /\ set' = [set EXCEPT ![r] = [NoSet EXCEPT !.pc = "step"]]
          /\ UNCHANGED vm
     ELSE /\ vm' = [vm EXCEPT !.params = Bound(args)]
          /\ IF BindRaises(args) THEN UNCHANGED set
             ELSE set' = [set EXCEPT ![r] = [NoSet EXCEPT !.pc = "step",
                                                          !.asked = Asked(args, Unbound)]]
  /\ ghost' = [ghost EXCEPT !.calls = @ + 1, !.resets = @ + 1]
  /\ UNCHANGED <<kind, schema, done, columns, shown>>

\* One step, also of a query.
BatchStep(r) ==
  /\ set[r].pc = "step" /\ kind.use = "batch"
  /\ \/ /\ StepDone
        /\ set' = [set EXCEPT ![r] = Ran(r, [@ EXCEPT !.pc = "ended"])]
        /\ ghost' = Counted
     \/ StepRow /\ set' = [set EXCEPT ![r] = NoSet] /\ UNCHANGED ghost
     \/ StepFails /\ set' = [set EXCEPT ![r].pc = "failed"] /\ UNCHANGED ghost
  /\ UNCHANGED <<kind, schema, columns, shown>>

-----------------------------------------------------------------------------
(* ResultSet#next and the loop of Statement#each                           *)

MayNext(r) ==
  /\ kind.use # "batch"
  /\ \/ set[r].pc \in {"idle", "ended"}
     \/ Shared /\ set[r].pc = "failed"

\* What a column shows of a parameter, which is NULL while it is not bound.
ColumnOf(param, way, internal) ==
  [value |-> IF param = Unset THEN Nil ELSE Column(param, way, internal),
   called |-> way.called]

\* The columns of the row that step returns.  A function that raises is left
\* to SqliteCallbacks, and no column is followed if threads share the statement.
ShowsColumns(r) ==
  IF Shared THEN UNCHANGED shown
  ELSE \E internal \in Internals, ways \in [1 .. Params -> Ways] :
         LET columnsOf == [k \in 1 .. Params |-> ColumnOf(vm.params[k], ways[k], internal)]
         IN  /\ \A k \in 1 .. Params : columnsOf[k].value # Raised
             /\ shown' = [shown EXCEPT ![r] = columnsOf]

Next1(r) ==
  /\ MayNext(r)
  /\ \/ /\ StepRow
        /\ ShowsColumns(r)
        /\ set' = [set EXCEPT ![r] = [@ EXCEPT !.pc = "check", !.row = Stepped]]
        /\ UNCHANGED ghost
     \/ /\ StepDone
        /\ set' = [set EXCEPT ![r] = Ran(r, [@ EXCEPT !.pc = "check", !.row = NoRow])]
        /\ ghost' = Counted
        /\ UNCHANGED shown
     \/ /\ StepFails
        /\ set' = [set EXCEPT ![r].pc = "failed"]
        /\ UNCHANGED <<shown, ghost>>
     \/ /\ StepNil
        /\ set' = [set EXCEPT ![r] = [@ EXCEPT !.pc = "check", !.row = NoRow]]
        /\ UNCHANGED <<shown, ghost>>
  /\ UNCHANGED <<kind, schema, columns>>

\* return nil if done?; else the row gets the names @columns holds.
Next2(r) ==
  /\ set[r].pc = "check"
  /\ IF done
     THEN /\ set' = [set EXCEPT ![r] = [@ EXCEPT !.pc = "ended", !.row = NoRow]]
          /\ ghost' = [ghost EXCEPT !.lost = IF set[r].row = NoRow THEN @ ELSE @ + 1]
          /\ UNCHANGED columns
     ELSE /\ columns' = IF columns = 0 THEN vm.cols ELSE columns
          /\ set' = [set EXCEPT
                       ![r] = [@ EXCEPT !.pc = "idle", !.row = NoRow,
                                 !.got = IF Shared THEN set[r].got
                                         ELSE Append(set[r].got, [row |-> set[r].row,
                                                                  fields |-> columns'])]]
          /\ UNCHANGED ghost
  /\ shown' = [shown EXCEPT ![r] = NoColumns]
  /\ UNCHANGED <<kind, schema, vm, done>>

-----------------------------------------------------------------------------

\* A connection changes the table; while the statement reads, it cannot.
AlterTable ==
  /\ vm.pc # "row" /\ schema < MaxSchemas
  /\ schema' = schema + 1
  /\ UNCHANGED <<kind, vm, done, columns, set, shown, ghost>>

Next ==
  \/ \E r \in Sets :
       \/ \E args \in ArgLists :
            Execute(r, args) \/ ResetSet(r, args) \/ DatabaseExecute(r, args) \/ Batch(r, args)
       \/ Bind(r) \/ FirstStep(r) \/ BatchStep(r) \/ Next1(r) \/ Next2(r)
  \/ AlterTable

Spec == Init /\ [][Next]_vars

-----------------------------------------------------------------------------
(* Properties                                                              *)

\* Unless the statement is shared, a ResultSet has delivered the first rows of
\* one execution, each once and in order, for the values its call gave; when
\* next has answered nil, it has delivered all of them.
OwnRows ==
  ~Shared => \A r \in Sets :
    LET got == set[r].got
    IN  /\ \A i \in 1 .. Len(got) :
             /\ got[i].row.pos = i
             /\ \A k \in 1 .. Params : set[r].asked[k] # Unset =>
                                         got[i].row.params[k] = set[r].asked[k]
        /\ set[r].pc = "ended" /\ kind.use # "batch" => done /\ Len(got) = vm.pos

\* done? of one thread sees the end that another thread's step has found: a
\* row in hand is then taken for the end and lost.  No more rows of an
\* execution are lost than there are other threads, and none with one thread.
FewLost ==
  ghost.lost <= IF Shared THEN Cardinality(Sets) - 1 ELSE 0

\* A write takes effect at most once for each time it was reset and asked for;
\* with one thread exactly once in each call that has returned, not at all in
\* one that raised.
WritesOnce ==
  kind.writes =>
    /\ ghost.effects <= ghost.resets
    /\ ~Shared => \A r \in Sets :
         /\ set[r].ran <= 1
         /\ set[r].pc = "idle" /\ set[r].call = "execute" => set[r].ran = 1
         /\ set[r].pc = "ended" => set[r].ran = 1
         /\ set[r].pc = "failed" => set[r].ran = 0

\* In a UTF-8 database and unless the statement is shared, a row that step has
\* returned shows of each value its ResultSet's call gave what ComesBack says,
\* however it was encoded, and whatever was bound, stepped or reset in between.
RowsHoldValues ==
  Database = "utf8" /\ ~Shared => \A r \in Sets : set[r].row # NoRow =>
    \A k \in 1 .. Params : set[r].asked[k] # Unset =>
      ComesBack(set[r].asked[k], shown[r][k].value, shown[r][k].called)

\* The documentation's: the column names are accessible via fields, and are
\* the keys of a hash.
FieldsNameColumns ==
  kind.use = "own" =>
    \A r \in Sets : \A i \in 1 .. Len(set[r].got) :
      set[r].got[i].fields = set[r].got[i].row.cols
=============================================================================
