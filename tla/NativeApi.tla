----------------------------- MODULE NativeApi -----------------------------
(***************************************************************************)
(* Callbacks through the SWIG wrapper sqlite3_api_wrap.c and the Ruby      *)
(* driver that calls it.                                                   *)
(*                                                                         *)
(* A CallbackData object carries the Ruby procs of a function, aggregate   *)
(* or handler.  SQLite keeps a bare pointer to it, which the collector     *)
(* does not see; the driver keeps the object reachable from a hash keyed   *)
(* by the name of the function, or by the connection of a handler.  The    *)
(* state of an aggregate is a Ruby hash whose only reference lies in       *)
(* SQLite's memory: the wrapper registers that address with the collector  *)
(* when it stores the hash, and takes it back after the final callback.    *)
(***************************************************************************)
EXTENDS NativeValues

CONSTANTS
  Dbs,       \* connections that share one driver object
  NoDb,
  Names,     \* names of functions
  Variants,  \* numbers of arguments and encodings a name is registered with
  Handlers,  \* of busy_handler, set_authorizer and trace
  Stmts,     \* statement handles, each for SELECT name(...) FROM t GROUP BY g
  Datas,     \* CallbackData objects
  NoData,
  Sloppy,    \* names registered for several variants or databases at a time,
             \* or registered again while a statement runs
  Stored,    \* values the application has stored in t with bind_param
  MaxRows    \* bound on the rows of a group

ASSUME ConstantsAssumption ==
  /\ NoDb \notin Dbs
  /\ NoData \notin Datas
  /\ Handlers \subseteq {"busy_handler", "set_authorizer", "trace"}
  /\ Sloppy \subseteq Names
  /\ Stored \subseteq Given
  /\ MaxRows \in Nat

VARIABLES
  conn,          \* SQLite: the connections
  table,         \* SQLite: the user data of each function
  hook,          \* SQLite: the user data of each handler
  life,          \* the CallbackData objects
  callbackData,  \* the driver's @callback_data
  handler,       \* the driver's @busy_handler, @authorizer and @trace
  stmt,          \* the statements
  context,       \* SQLite's aggregate context of each statement
  registered     \* how often the collector holds the address of a context

sqliteVars == <<conn, table, hook>>
driverVars == <<callbackData, handler>>
queryVars  == <<stmt, context, registered>>
vars       == <<sqliteVars, life, driverVars, queryVars>>

Slots   == Dbs \X Names \X Variants
NoSlot  == <<NoDb, NoDb, NoDb>>
Entry   == [data : Datas \cup {NoData}, aggregate : BOOLEAN]
NoEntry == [data |-> NoData, aggregate |-> FALSE]

\* What the application gave for the argument of the current row, and the cell
\* that has it: the argument, and then what the function returned.
NoValue == [given |-> Null, cell |-> Null]

Unprepared == [slot |-> NoSlot, call |-> NoEntry, pc |-> "none", next |-> "none",
               rows |-> 0, value |-> NoValue]

\* No context, or one that was allocated and holds a hash of rows.
NoContext == [hash |-> "none", rows |-> 0]

Active == {"running", "step", "final", "broken"}

\* Every variable has its type, and only an aggregate that runs has a context.
TypeOK ==
  /\ conn \in [Dbs -> {"none", "open", "closed"}]
  /\ table \in [Slots -> Entry]
  /\ hook \in [Dbs \X Handlers -> Datas \cup {NoData}]
  /\ life \in [Datas -> {"unborn", "live", "freed"}]
  /\ callbackData \in [Names -> Datas \cup {NoData}]
  /\ handler \in [Dbs \X Handlers -> Datas \cup {NoData}]
  /\ stmt \in [Stmts -> [slot : Slots \cup {NoSlot}, call : Entry,
                         pc : {"none", "ready"} \cup Active,
                         next : {"none", "ready", "running"}, rows : 0 .. MaxRows,
                         value : [given : Given, cell : Cells]]]
  /\ context \in [Stmts -> [hash : {"none", "live", "freed"}, rows : 0 .. MaxRows]]
  /\ registered \in [Stmts -> Nat]
  /\ \A s \in Stmts : context[s].hash # "none" =>
                        stmt[s].pc \in Active /\ stmt[s].call.aggregate

Init ==
  /\ conn = [d \in Dbs |-> "none"]
  /\ table = [x \in Slots |-> NoEntry]
  /\ hook = [x \in Dbs \X Handlers |-> NoData]
  /\ life = [c \in Datas |-> "unborn"]
  /\ callbackData = [n \in Names |-> NoData]
  /\ handler = [x \in Dbs \X Handlers |-> NoData]
  /\ stmt = [s \in Stmts |-> Unprepared]
  /\ context = [s \in Stmts |-> NoContext]
  /\ registered = [s \in Stmts |-> 0]

-----------------------------------------------------------------------------
(* Connections                                                             *)

Open(d) ==
  /\ conn[d] = "none"
  /\ conn' = [conn EXCEPT ![d] = "open"]
  /\ UNCHANGED <<table, hook, life, driverVars, queryVars>>

\* sqlite3_close answers BUSY while a statement is not finalised; SQLite then
\* keeps its tables.  The driver keeps its hashes in either case.
Close(d) ==
  /\ conn[d] = "open"
  /\ \A s \in Stmts : stmt[s].pc # "none" => stmt[s].slot[1] # d
  /\ conn' = [conn EXCEPT ![d] = "closed"]
  /\ table' = [x \in Slots |-> IF x[1] = d THEN NoEntry ELSE table[x]]
  /\ hook' = [x \in Dbs \X Handlers |-> IF x[1] = d THEN NoData ELSE hook[x]]
  /\ UNCHANGED <<life, driverVars, queryVars>>

-----------------------------------------------------------------------------
(* Registration                                                            *)

\* new_CallbackData; the fields are set before SQLite hears of the object.
NewCallbackData(c) == life[c] = "unborn" /\ life' = [life EXCEPT ![c] = "live"]

\* sqlite3_create_function answers BUSY for a function that exists while a
\* statement of the connection is active.
Refused(x) ==
  /\ table[x] # NoEntry
  /\ \E s \in Stmts : stmt[s].slot[1] = x[1] /\ stmt[s].pc \in Active

\* sqlite3_create_function of the wrapper; its answer goes to the driver.
Registers(x, entry) ==
  table' = IF Refused(x) THEN table ELSE [table EXCEPT ![x] = entry]

\* sqlite3_busy_handler, sqlite3_set_authorizer and sqlite3_trace of the
\* wrapper; SQLite never refuses them.
Hooks(d, k, c) == hook' = [hook EXCEPT ![<<d, k>>] = c]

\* A careful application registers a name once at a time, and not while that
\* could be refused.
MayRegister(x) ==
  \/ x[2] \in Sloppy
  \/ /\ ~Refused(x)
     /\ \A y \in Slots \ {x} : y[2] = x[2] => table[y] = NoEntry

\* Mutation of CreateFunction: the hash is keyed by the connection alone, so
\* that only the last function of a connection stays reachable.
BugKeyedByConnection(x, c, aggregate) ==
  /\ conn[x[1]] = "open" /\ MayRegister(x)
  /\ NewCallbackData(c)
  /\ Registers(x, [data |-> c, aggregate |-> aggregate])
  /\ callbackData' = [n \in Names |-> IF n = x[2] THEN c ELSE NoData]
  /\ UNCHANGED <<conn, hook, handler, queryVars>>

\* Driver#create_function: the new object is stored under the name whatever
\* SQLite answered.
CreateFunction(x, c, aggregate) ==
  /\ conn[x[1]] = "open" /\ MayRegister(x)
  /\ NewCallbackData(c)
  /\ Registers(x, [data |-> c, aggregate |-> aggregate])
  /\ callbackData' = [callbackData EXCEPT ![x[2]] = c]
  /\ UNCHANGED <<conn, hook, handler, queryVars>>

\* The same call without procs.
RemoveFunction(x) ==
  /\ conn[x[1]] = "open" /\ MayRegister(x)
  /\ Registers(x, NoEntry)
  /\ callbackData' = [callbackData EXCEPT ![x[2]] = NoData]
  /\ UNCHANGED <<conn, hook, life, handler, queryVars>>

\* Driver#busy_handler, set_authorizer and trace.
SetHandler(d, k, c) ==
  /\ conn[d] = "open" /\ NewCallbackData(c)
  /\ Hooks(d, k, c)
  /\ handler' = [handler EXCEPT ![<<d, k>>] = c]
  /\ UNCHANGED <<conn, table, callbackData, queryVars>>

ClearHandler(d, k) ==
  /\ conn[d] = "open"
  /\ Hooks(d, k, NoData)
  /\ handler' = [handler EXCEPT ![<<d, k>>] = NoData]
  /\ UNCHANGED <<conn, table, life, callbackData, queryVars>>

\* sqlite3_busy_timeout puts SQLite's own handler in the place; the driver
\* only passes the call on.
BusyTimeout(d) ==
  /\ conn[d] = "open" /\ "busy_handler" \in Handlers
  /\ Hooks(d, "busy_handler", NoData)
  /\ UNCHANGED <<conn, table, life, driverVars, queryVars>>

Reachable(c) ==
  \/ \E n \in Names : callbackData[n] = c
  \/ \E d \in Dbs, k \in Handlers : handler[<<d, k>>] = c

Garbage == {c \in Datas : life[c] = "live" /\ ~Reachable(c)}

\* A collection frees some of the objects nothing reaches (free_CallbackData),
\* and the hash of an aggregate, whose only reference is the registered
\* address, unless that is registered.
Collect(garbage) ==
  /\ life' = [c \in Datas |-> IF c \in garbage THEN "freed" ELSE life[c]]
  /\ context' = [s \in Stmts |->
                   IF context[s].hash = "live" /\ registered[s] = 0
                   THEN [context[s] EXCEPT !.hash = "freed"] ELSE context[s]]
  /\ UNCHANGED <<sqliteVars, driverVars, stmt, registered>>

-----------------------------------------------------------------------------
(* Statements                                                              *)

Prepare(s, x) ==
  /\ stmt[s].pc = "none" /\ conn[x[1]] = "open" /\ table[x] # NoEntry
  /\ stmt' = [stmt EXCEPT ![s] = [Unprepared EXCEPT !.slot = x, !.call = table[x],
                                                    !.pc = "ready"]]
  /\ UNCHANGED <<sqliteVars, life, driverVars, context, registered>>

\* The first sqlite3_step.  A statement prepared before its function was
\* registered again has expired.
Start(s) ==
  /\ stmt[s].pc = "ready" /\ table[stmt[s].slot] = stmt[s].call
  /\ stmt' = [stmt EXCEPT ![s].pc = "running"]
  /\ UNCHANGED <<sqliteVars, life, driverVars, context, registered>>

\* The first callback of a group finds a zeroed context, stores a new hash in
\* it and registers the address.
NeedHash(s) ==
  IF context[s].hash # "none" THEN UNCHANGED <<context, registered>>
  ELSE /\ context' = [context EXCEPT ![s] = [hash |-> "live", rows |-> 0]]
       /\ registered' = [registered EXCEPT ![s] = @ + 1]

\* Mutation of Step: every row gets a new hash.
BugHashPerRow(s, v) ==
  /\ stmt[s].pc = "running" /\ stmt[s].rows < MaxRows
  /\ IF stmt[s].call.aggregate
     THEN /\ context' = [context EXCEPT ![s] = [hash |-> "live", rows |-> 0]]
          /\ registered' = [registered EXCEPT ![s] = 1]
     ELSE UNCHANGED <<context, registered>>
  /\ stmt' = [stmt EXCEPT ![s].pc = "step"]
  /\ UNCHANGED <<sqliteVars, life, driverVars>>

\* Sqlite3_ruby_function_step, up to the call of the proc, for a row with the
\* stored value v; what an aggregate makes of it is left open.
Step(s, v) ==
  LET value == IF stmt[s].call.aggregate THEN NoValue ELSE [given |-> v, cell |-> BindParam(v)]
  IN  /\ stmt[s].pc = "running" /\ stmt[s].rows < MaxRows
      /\ BindParam(v) # Raised
      /\ IF stmt[s].call.aggregate THEN NeedHash(s) ELSE UNCHANGED <<context, registered>>
      /\ stmt' = [stmt EXCEPT ![s].pc = "step", ![s].value = value]
      /\ UNCHANGED <<sqliteVars, life, driverVars>>

\* The proc has counted its row in the hash aggregate_context gave it, or has
\* read its argument with reader r and returned it.
StepReturns(s, r) ==
  LET arg == stmt[s].value.cell
  IN  /\ stmt[s].pc = "step"
      /\ IF stmt[s].call.aggregate
         THEN /\ r = "text"
              /\ context' = [context EXCEPT ![s].rows = @ + 1]
              /\ stmt' = [stmt EXCEPT ![s].pc = "running", ![s].rows = @ + 1]
         ELSE /\ Suits(r, arg)
              /\ UNCHANGED context
              /\ \E w \in Returned(r, arg) \ {Raised} :
                   stmt' = [stmt EXCEPT ![s] = [@ EXCEPT !.pc = "running", !.value.cell = w]]
      /\ UNCHANGED <<sqliteVars, life, driverVars, registered>>

\* The proc raises through SQLite's frames: the context stays with its hash, and
\* SQLite finalises the aggregate when the statement is reset or finalised.
StepRaises(s) ==
  /\ stmt[s].pc = "step"
  /\ stmt' = [stmt EXCEPT ![s].pc = "broken", ![s].value = NoValue]
  /\ UNCHANGED <<sqliteVars, life, driverVars, context, registered>>

\* Mutation of Final: the address is unregistered before the proc is called.
BugUnregisterFirst(s, next) ==
  /\ stmt[s].pc \in {"running", "broken"} /\ stmt[s].call.aggregate
  /\ next = "running" => stmt[s].pc = "running"
  /\ next # "running" => context[s].hash # "none"
  /\ context' = [context EXCEPT ![s].hash = "live"]
  /\ registered' = [registered EXCEPT ![s] = 0]
  /\ stmt' = [stmt EXCEPT ![s].pc = "final", ![s].next = next]
  /\ UNCHANGED <<sqliteVars, life, driverVars>>

\* Sqlite3_ruby_function_final, up to the call of proc2: at the end of a
\* group, an empty one too, or when the statement is reset or finalised with
\* a context left.
Final(s, next) ==
  /\ stmt[s].pc \in {"running", "broken"} /\ stmt[s].call.aggregate
  /\ next = "running" => stmt[s].pc = "running"
  /\ next # "running" => context[s].hash # "none"
  /\ NeedHash(s)
  /\ stmt' = [stmt EXCEPT ![s].pc = "final", ![s].next = next]
  /\ UNCHANGED <<sqliteVars, life, driverVars>>

\* proc2 has returned: the address is unregistered, SQLite frees the context.
FinalReturns(s) ==
  /\ stmt[s].pc = "final"
  /\ registered' = [registered EXCEPT ![s] = @ - 1]
  /\ context' = [context EXCEPT ![s] = NoContext]
  /\ stmt' = [stmt EXCEPT ![s] = IF @.next = "none" THEN Unprepared
                                 ELSE [@ EXCEPT !.pc = stmt[s].next, !.next = "none",
                                           !.rows = 0]]
  /\ UNCHANGED <<sqliteVars, life, driverVars>>

\* proc2 raises through SQLite's frames: neither the wrapper nor SQLite goes
\* on, and SQLite will finalise the aggregate again when the statement ends.
FinalRaises(s) ==
  /\ stmt[s].pc = "final"
  /\ stmt' = [stmt EXCEPT ![s].pc = "broken", ![s].next = "none"]
  /\ UNCHANGED <<sqliteVars, life, driverVars, context, registered>>

\* sqlite3_reset and sqlite3_finalize of a statement without a context.
Leave(s, next) ==
  /\ stmt[s].pc \in {"ready", "running", "broken"} /\ context[s].hash = "none"
  /\ stmt' = [stmt EXCEPT ![s] = IF next = "none" THEN Unprepared
                                 ELSE [@ EXCEPT !.pc = next, !.rows = 0, !.value = NoValue]]
  /\ UNCHANGED <<sqliteVars, life, driverVars, context, registered>>

-----------------------------------------------------------------------------

Registration ==
  \/ \E x \in Slots, c \in Datas, a \in BOOLEAN : CreateFunction(x, c, a)
  \/ \E x \in Slots : RemoveFunction(x)
  \/ \E d \in Dbs : BusyTimeout(d)
  \/ \E d \in Dbs, k \in Handlers :
       ClearHandler(d, k) \/ \E c \in Datas : SetHandler(d, k, c)

Query(s) ==
  \/ \E x \in Slots : Prepare(s, x)
  \/ Start(s) \/ StepRaises(s)
  \/ \E v \in Stored : Step(s, v)
  \/ \E r \in Readers : StepReturns(s, r)
  \/ \E next \in {"running", "ready", "none"} : Final(s, next)
  \/ FinalReturns(s) \/ FinalRaises(s)
  \/ \E next \in {"ready", "none"} : Leave(s, next)

Next ==
  \/ \E d \in Dbs : Open(d) \/ Close(d)
  \/ Registration
  \/ \E garbage \in SUBSET Garbage : Collect(garbage)
  \/ \E s \in Stmts : Query(s)

Spec == Init /\ [][Next]_vars

-----------------------------------------------------------------------------
(* Properties                                                              *)

Live(c) == c # NoData => life[c] = "live"

\* SQLite never calls through a CallbackData the collector has freed: no
\* handler, no function of a careful name, no statement that runs one.
CallbacksLive ==
  /\ \A d \in Dbs, k \in Handlers : Live(hook[<<d, k>>])
  /\ \A x \in Slots : x[2] \notin Sloppy => Live(table[x].data)
  /\ \A s \in Stmts : stmt[s].pc \in Active /\ stmt[s].slot[2] \notin Sloppy
                        => Live(stmt[s].call.data)

\* The collector holds the address of every context exactly once while the
\* context exists, also when a final callback raised and runs again: the hash
\* in it is live, and no address is held of memory SQLite has freed.
ContextsRooted ==
  \A s \in Stmts :
    /\ context[s].hash # "freed"
    /\ registered[s] = IF context[s].hash = "none" THEN 0 ELSE 1

\* Each group of each query counts in a hash of its own, whatever else runs.
GroupsApart ==
  \A s \in Stmts : context[s].hash # "none" => context[s].rows = stmt[s].rows

\* Whatever a function has read and returned, and whichever reader the
\* application has for the column: the row shows what was stored, but for the
\* end of a string and the digits of a double.  A value that a call cannot take
\* raises, and none is passed on cut to its width.
ValuesKept ==
  \A s \in Stmts :
    LET given == stmt[s].value.given
        cell  == stmt[s].value.cell
    IN  /\ Keeps(given, cell)
        /\ \A r \in ColumnReaders : Suits(r, cell) => Keeps(given, Column(r, cell))
=============================================================================
