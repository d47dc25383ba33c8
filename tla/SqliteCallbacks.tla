--------------------------- MODULE SqliteCallbacks ---------------------------
(***************************************************************************)
(* The Ruby callbacks one Database of the SQLite3 gem registers in SQLite: *)
(* functions, aggregates and collations.                                   *)
(*                                                                         *)
(* SQLite stores a bare pointer to the Ruby object.  The collector does    *)
(* not see it, so the gem must root every registered object in an instance *)
(* variable of the Database: @functions and @collations by name, and a     *)
(* single @agregator.  An aggregate object is created once, when it is     *)
(* registered, and serves every invocation of the function.                *)
(***************************************************************************)
EXTENDS Naturals, FiniteSets

CONSTANTS
  Names,     \* names of functions and collations
  Arities,   \* numbers of arguments
  AnyArity,  \* the arity -1, which stands for any number
  Objects,   \* Ruby objects: procs, aggregators, comparators
  NoObject,
  Keeping,   \* the objects that, as aggregates, keep their total when asked for it
  Exprs,     \* calls of an aggregate that one query may contain
  MaxRows,   \* bound on the rows of a query
  MaxTotal   \* bound on the rows an aggregate object accumulates

ASSUME ConstantsAssumption ==
  /\ AnyArity \in Arities
  /\ NoObject \notin Objects
  /\ Keeping \subseteq Objects
  /\ IsFiniteSet(Exprs)
  /\ MaxRows \in Nat
  /\ MaxTotal \in Nat

VARIABLES
  heap,        \* life of each object: unborn, live, freed
  func,        \* SQLite: the object called for a name and an arity
  coll,        \* SQLite: the object called for a collation
  functions,   \* @functions
  collations,  \* @collations
  agregator,   \* @agregator
  aggregates,  \* the objects registered as aggregates
  query,       \* the running SELECT
  acc,         \* rows accumulated in each aggregate object
  answer,      \* the total SQLite was given last
  spoilt       \* history: the aggregates that carry another query's rows

sqliteVars == <<func, coll>>
rootVars   == <<functions, collations, agregator>>
queryVars  == <<query, acc, answer, spoilt>>
vars       == <<heap, sqliteVars, rootVars, aggregates, queryVars>>

Slots   == Names \X Arities
Entries == Objects \cup {NoObject}
Idle    == [object |-> NoObject, calls |-> {}, rows |-> 0, left |-> {}]

\* Every variable has its type, and a statement names its function exactly
\* while it runs.
TypeOK ==
  /\ heap \in [Objects -> {"unborn", "live", "freed"}]
  /\ func \in [Slots -> Entries]
  /\ coll \in [Names -> Entries]
  /\ functions \in [Names -> Entries]
  /\ collations \in [Names -> Entries]
  /\ agregator \in Entries
  /\ aggregates \in SUBSET Objects
  /\ query \in [object : Entries, calls : SUBSET Exprs, rows : 0 .. MaxRows,
                left : SUBSET Exprs]
  /\ query.object = NoObject <=> query = Idle
  /\ query.calls = {} <=> query = Idle
  /\ acc \in [Objects -> Nat]
  /\ answer \in Nat
  /\ spoilt \in SUBSET Objects

Init ==
  /\ heap = [o \in Objects |-> "unborn"]
  /\ func = [s \in Slots |-> NoObject]
  /\ coll = [n \in Names |-> NoObject]
  /\ functions = [n \in Names |-> NoObject]
  /\ collations = [n \in Names |-> NoObject]
  /\ agregator = NoObject
  /\ aggregates = {}
  /\ query = Idle
  /\ acc = [o \in Objects |-> 0]
  /\ answer = 0 /\ spoilt = {}

-----------------------------------------------------------------------------
(* Registration.  The application may register anything at any time, and     *)
(* keeps no reference of its own.                                            *)

Running == query # Idle

New(o) == heap[o] = "unborn" /\ heap' = [heap EXCEPT ![o] = "live"]

\* sqlite3_create_function refuses to replace a function, and SQLite a
\* collation, while a statement runs.
Refused(old) == Running /\ old # NoObject

\* Mutation of DefineFunction: the block is not rooted in @functions.
BugNoRoot(n, a, o) ==
  /\ New(o) /\ ~Refused(func[<<n, a>>])
  /\ func' = [func EXCEPT ![<<n, a>>] = o]
  /\ UNCHANGED <<coll, rootVars, aggregates, queryVars>>

\* Database#define_function registers the block for its own arity, a.
DefineFunction(n, a, o) ==
  /\ New(o)
  /\ IF Refused(func[<<n, a>>]) THEN UNCHANGED <<func, functions>>
     ELSE /\ func' = [func EXCEPT ![<<n, a>>] = o]
          /\ functions' = [functions EXCEPT ![n] = o]
  /\ UNCHANGED <<coll, collations, agregator, aggregates, queryVars>>

\* Database#define_aggregator replaces @agregator before it looks at SQLite's
\* answer.
DefineAggregator(n, a, o) ==
  /\ New(o)
  /\ agregator' = o
  /\ aggregates' = aggregates \cup {o}
  /\ IF Refused(func[<<n, a>>]) THEN UNCHANGED func
     ELSE func' = [func EXCEPT ![<<n, a>>] = o]
  /\ UNCHANGED <<coll, functions, collations, queryVars>>

\* create_function, create_aggregate and create_aggregate_handler drop the
\* arity they are given: the block, or the proxy made once, that they pass on
\* takes any number of arguments.
CreateFunction(n, o)  == DefineFunction(n, AnyArity, o)
CreateAggregate(n, o) == DefineAggregator(n, AnyArity, o)

Collation(n, o) ==
  /\ New(o)
  /\ IF Refused(coll[n]) THEN UNCHANGED <<coll, collations>>
     ELSE /\ coll' = [coll EXCEPT ![n] = o]
          /\ collations' = [collations EXCEPT ![n] = o]
  /\ UNCHANGED <<func, functions, agregator, aggregates, queryVars>>

\* Database#collation with nil.
RemoveCollation(n) ==
  /\ coll[n] # NoObject /\ ~Refused(coll[n])
  /\ coll' = [coll EXCEPT ![n] = NoObject]
  /\ collations' = [collations EXCEPT ![n] = NoObject]
  /\ UNCHANGED <<heap, func, functions, agregator, aggregates, queryVars>>

\* What the collector marks.
Rooted(o) ==
  \/ \E n \in Names : o \in {functions[n], collations[n]}
  \/ o = agregator

Collect(o) ==
  /\ heap[o] = "live" /\ ~Rooted(o)
  /\ heap' = [heap EXCEPT ![o] = "freed"]
  /\ UNCHANGED <<sqliteVars, rootVars, aggregates, queryVars>>

-----------------------------------------------------------------------------
(* Queries                                                                 *)

\* SQLite prefers the exact arity.
Callee(s) == IF func[s] # NoObject THEN func[s] ELSE func[<<s[1], AnyArity>>]

\* SELECT f(x), f(y) FROM t
StartQuery(s, calls) ==
  /\ ~Running /\ Callee(s) # NoObject /\ calls # {}
  /\ query' = [object |-> Callee(s), calls |-> calls, rows |-> 0, left |-> calls]
  /\ UNCHANGED <<heap, sqliteVars, rootVars, aggregates, acc, answer, spoilt>>

\* Mutation of Row: the first row only makes the aggregate.
BugFirstRowLost ==
  /\ Running /\ query.left = query.calls /\ query.rows < MaxRows
  /\ acc[query.object] + Cardinality(query.calls) <= MaxTotal
  /\ query' = [query EXCEPT !.rows = @ + 1]
  /\ acc' = IF query.object \in aggregates /\ query.rows > 0
            THEN [acc EXCEPT ![query.object] = @ + Cardinality(query.calls)] ELSE acc
  /\ UNCHANGED <<heap, sqliteVars, rootVars, aggregates, answer, spoilt>>

\* rb_sqlite3_step, or rb_sqlite3_func, once for each call in the query.
Row ==
  /\ Running /\ query.left = query.calls /\ query.rows < MaxRows
  /\ acc[query.object] + Cardinality(query.calls) <= MaxTotal
  /\ query' = [query EXCEPT !.rows = @ + 1]
  /\ acc' = IF query.object \in aggregates
            THEN [acc EXCEPT ![query.object] = @ + Cardinality(query.calls)] ELSE acc
  /\ UNCHANGED <<heap, sqliteVars, rootVars, aggregates, answer, spoilt>>

\* rb_sqlite3_final asks the object for its total.  A careful handler then
\* starts again from zero; the documented ones keep what they have.
Final(e) ==
  LET o == query.object IN
  /\ o \in aggregates /\ e \in query.left
  /\ answer' = acc[o]
  /\ IF o \in Keeping THEN spoilt' = spoilt \cup {o} /\ UNCHANGED acc
     ELSE spoilt' = spoilt \ {o} /\ acc' = [acc EXCEPT ![o] = 0]
  /\ query' = [query EXCEPT !.left = @ \ {e}]
  /\ UNCHANGED <<heap, sqliteVars, rootVars, aggregates>>

\* GROUP BY: all calls have been answered for one group, another begins.
NextGroup ==
  /\ Running /\ query.left = {}
  /\ query' = [query EXCEPT !.left = query.calls, !.rows = 0]
  /\ UNCHANGED <<heap, sqliteVars, rootVars, aggregates, acc, answer, spoilt>>

\* The statement is finished, or is closed, fails or is interrupted early:
\* SQLite then does not finalise the aggregates, since the gem asks for no
\* aggregate context, and their rows stay with the object.
EndQuery ==
  /\ Running
  /\ query' = Idle
  /\ answer' = 0
  /\ spoilt' = IF query.object \in aggregates /\ query.left # {} /\ query.rows > 0
               THEN spoilt \cup {query.object} ELSE spoilt
  /\ UNCHANGED <<heap, sqliteVars, rootVars, aggregates, acc>>

-----------------------------------------------------------------------------

Registration ==
  \E n \in Names, o \in Objects :
    \/ \E a \in Arities : DefineFunction(n, a, o) \/ DefineAggregator(n, a, o)
    \/ CreateFunction(n, o)
    \/ CreateAggregate(n, o)
    \/ Collation(n, o)

Next ==
  \/ Registration
  \/ \E n \in Names : RemoveCollation(n)
  \/ \E o \in Objects : Collect(o)
  \/ \E s \in Slots, calls \in SUBSET Exprs : StartQuery(s, calls)
  \/ Row
  \/ \E e \in Exprs : Final(e)
  \/ NextGroup
  \/ EndQuery

Spec == Init /\ [][Next]_vars

-----------------------------------------------------------------------------
(* Properties                                                              *)

Live(o) == o # NoObject => heap[o] = "live"

\* The name of slot s is registered for no other arity.
Alone(s) == \A b \in Arities \ {s[2]} : func[<<s[1], b>>] = NoObject

\* What the collector may free under SQLite: an aggregate that another one has
\* followed, or tried to, and a function whose name is registered for two
\* arities.
Endangered(o) ==
  \/ o \in aggregates /\ o # agregator
  \/ \E s \in Slots : func[s] = o /\ ~Alone(s)

\* Whatever the application registers, and whenever: SQLite holds no pointer to
\* a freed object, in its tables or in a running statement, but to an endangered
\* one.
DangerContained ==
  /\ \A n \in Names : Live(coll[n])
  /\ \A s \in Slots : ~Endangered(func[s]) => Live(func[s])
  /\ ~Endangered(query.object) => Live(query.object)

\* One object serves all the invocations of an aggregate.  A query's only call
\* is answered for the rows of its own group, unless the object has kept the
\* rows of an abandoned query that nothing has finalised since, or keeps all it
\* was ever given and has answered before.
AnswersItsRows ==
  [][\A e \in Exprs :
       Final(e) /\ query.calls = {e} /\ query.object \notin spoilt =>
         answer' = query.rows]_vars
=============================================================================
