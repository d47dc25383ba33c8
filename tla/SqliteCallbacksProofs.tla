------------------------ MODULE SqliteCallbacksProofs ------------------------
(* What TLAPS proves of SqliteCallbacks, for any application: type            *)
(* correctness, which callbacks alone the collector can free under SQLite,    *)
(* and when an aggregate answers for the rows of its own query.               *)
EXTENDS SqliteCallbacks, FiniteSetTheorems, TLAPS

\* No root is freed.
RootsLive ==
  /\ \A n \in Names : Live(functions[n]) /\ Live(collations[n])
  /\ Live(agregator)

\* A running statement calls a registered object.
QueryRegistered ==
  query.object # NoObject => \E s \in Slots : query.object = func[s]

\* The functions that nothing has followed are rooted by their name.
FunctionsFollow ==
  \A s \in Slots :
    func[s] # NoObject /\ func[s] \notin aggregates /\ Alone(s) => func[s] = functions[s[1]]

ContainedInv ==
  TypeOK /\ coll = collations /\ FunctionsFollow /\ RootsLive /\ QueryRegistered

-----------------------------------------------------------------------------

\* A well-typed state stays well typed.
LEMMA TypeStep == TypeOK /\ [Next]_vars => TypeOK'
<1> SUFFICES ASSUME TypeOK, [Next]_vars PROVE TypeOK'
  OBVIOUS
<1> USE ConstantsAssumption
<1>1. ASSUME NEW n \in Names, NEW a \in Arities,
             NEW o \in Objects, DefineFunction(n, a, o)
      PROVE  TypeOK'
  <2>3. heap' \in [Objects -> {"unborn", "live", "freed"}]
    BY <1>1 DEF DefineFunction, New, TypeOK
  <2>4. UNCHANGED <<query, acc, answer, spoilt>>
    BY <1>1 DEF DefineFunction, queryVars
  <2>1. CASE Refused(func[<<n, a>>])
    BY <1>1, <2>1, <2>3, <2>4 DEF DefineFunction, TypeOK, Entries
  <2>2. CASE ~Refused(func[<<n, a>>])
    <3>1. func' = [func EXCEPT ![<<n, a>>] = o]
      BY <1>1, <2>2 DEF DefineFunction
    <3>2. func' \in [Slots -> Entries]
      BY <3>1 DEF TypeOK, Entries
    <3> QED
      <4>1. functions' \in [Names -> Entries]
        BY <1>1, <2>2 DEF DefineFunction, TypeOK, Entries
      <4> QED
        BY <1>1, <2>3, <2>4, <3>2, <4>1 DEF DefineFunction, TypeOK
  <2> QED BY <2>1, <2>2
<1>2. ASSUME NEW n \in Names, NEW a \in Arities,
             NEW o \in Objects, DefineAggregator(n, a, o)
      PROVE  TypeOK'
  <2>3. heap' \in [Objects -> {"unborn", "live", "freed"}]
    BY <1>2 DEF DefineAggregator, New, TypeOK
  <2>4. UNCHANGED <<query, acc, answer, spoilt>>
    BY <1>2 DEF DefineAggregator, queryVars
  <2>1. CASE Refused(func[<<n, a>>])
    BY <1>2, <2>1, <2>3, <2>4 DEF DefineAggregator, TypeOK, Entries
  <2>2. CASE ~Refused(func[<<n, a>>])
    <3>1. func' = [func EXCEPT ![<<n, a>>] = o]
      BY <1>2, <2>2 DEF DefineAggregator
    <3>2. func' \in [Slots -> Entries]
      BY <3>1 DEF TypeOK, Entries
    <3> QED
      BY <1>2, <2>2, <2>3, <2>4, <3>1, <3>2 DEF DefineAggregator, TypeOK, Entries
  <2> QED BY <2>1, <2>2
<1>3. ASSUME NEW n \in Names, NEW o \in Objects, Collation(n, o)
      PROVE  TypeOK'
  <2>1. heap' \in [Objects -> {"unborn", "live", "freed"}]
    BY <1>3 DEF Collation, New, TypeOK
  <2>2. coll' \in [Names -> Entries] /\ collations' \in [Names -> Entries]
    BY <1>3 DEF Collation, TypeOK, Entries
  <2>3. UNCHANGED <<func, functions, agregator, aggregates, query, acc, answer, spoilt>>
    BY <1>3 DEF Collation, queryVars
  <2> QED BY <2>1, <2>2, <2>3 DEF TypeOK
<1>4. ASSUME NEW n \in Names, RemoveCollation(n)
      PROVE  TypeOK'
  BY <1>4 DEF RemoveCollation, TypeOK, Entries, Slots, queryVars
<1>5. ASSUME NEW o \in Objects, Collect(o)
      PROVE  TypeOK'
  BY <1>5 DEF Collect, TypeOK, Entries, Slots, queryVars, sqliteVars, rootVars
<1>6. ASSUME NEW s \in Slots, NEW calls \in SUBSET Exprs, StartQuery(s, calls)
      PROVE  TypeOK'
  <2>1. s \in Names \X Arities /\ <<s[1], AnyArity>> \in Slots
    BY DEF Slots
  <2>2. Callee(s) \in Objects
    BY <1>6, <2>1 DEF StartQuery, Callee, TypeOK, Entries, Slots
  <2>3. query'.object # NoObject /\ query'.calls # {} /\ query' # Idle
    BY <1>6, <2>2 DEF StartQuery, Idle
  <2> QED
    BY <1>6, <2>2, <2>3 DEF StartQuery, TypeOK, Entries, sqliteVars, rootVars
<1>7. ASSUME Row
      PROVE  TypeOK'
  <2>1. query.rows + 1 \in 0 .. MaxRows
    BY <1>7 DEF Row, TypeOK
  <2>2. acc' \in [Objects -> Nat]
    <3>1. Cardinality(query.calls) \in Nat
      BY FS_CardinalityType, FS_Subset DEF TypeOK
    <3> QED BY <1>7, <3>1 DEF Row, TypeOK
  <2>3. /\ query'.object = query.object /\ query'.calls = query.calls
        /\ query.object # NoObject /\ query.calls # {}
    BY <1>7 DEF Row, Running, TypeOK
  <2>4. query' # Idle
    BY <2>3 DEF Idle
  <2> QED
    BY <1>7, <2>1, <2>2, <2>3, <2>4 DEF Row, TypeOK, Entries, sqliteVars, rootVars
<1>8. ASSUME NEW e \in Exprs, Final(e)
      PROVE  TypeOK'
  <2>1. query.object \in Objects /\ query.object # NoObject /\ query.calls # {}
    BY <1>8 DEF Final, TypeOK
  <2>2. query'.object = query.object /\ query'.calls = query.calls /\ query' # Idle
    BY <1>8, <2>1 DEF Final, TypeOK, Idle
  <2> QED
    BY <1>8, <2>1, <2>2 DEF Final, TypeOK, Entries, sqliteVars, rootVars
<1>11. ASSUME NextGroup
       PROVE  TypeOK'
  <2>1. query.object # NoObject /\ query.calls # {}
    BY <1>11 DEF NextGroup, Running, TypeOK
  <2>2. query'.object = query.object /\ query'.calls = query.calls /\ query' # Idle
    BY <1>11, <2>1 DEF NextGroup, TypeOK, Idle
  <2>3. query' \in [object : Entries, calls : SUBSET Exprs, rows : 0 .. MaxRows,
                    left : SUBSET Exprs]
    <3>1. query.calls \in SUBSET Exprs /\ 0 \in 0 .. MaxRows
      BY DEF TypeOK
    <3>2. query' = [query EXCEPT !.left = query.calls, !.rows = 0]
      BY <1>11 DEF NextGroup
    <3> QED BY <3>1, <3>2 DEF TypeOK
  <2>4. UNCHANGED <<heap, func, coll, functions, collations, agregator, aggregates, acc,
                    answer, spoilt>>
    BY <1>11 DEF NextGroup, sqliteVars, rootVars
  <2> QED
    BY <2>1, <2>2, <2>3, <2>4 DEF TypeOK
<1>9. ASSUME EndQuery
      PROVE  TypeOK'
  BY <1>9 DEF EndQuery, Idle, TypeOK, Entries, sqliteVars, rootVars
<1>10. ASSUME UNCHANGED vars
       PROVE  TypeOK'
  BY <1>10 DEF vars, sqliteVars, rootVars, queryVars, TypeOK
<1> QED
  BY <1>1, <1>2, <1>3, <1>4, <1>5, <1>6, <1>7, <1>8, <1>9, <1>10,
     <1>11
     DEF Next, Registration, CreateFunction, CreateAggregate

LEMMA InitType == Init => TypeOK
BY ConstantsAssumption DEF Init, TypeOK, Entries, Slots, Idle

\* Every reachable state is well typed, and a statement names its function
\* exactly while it runs.
THEOREM TypeCorrect == Spec => []TypeOK
BY InitType, TypeStep, PTL DEF Spec

-----------------------------------------------------------------------------
(* Callbacks live                                                            *)

LEMMA InitContained == Init => ContainedInv
BY InitType
   DEF Init, ContainedInv, FunctionsFollow, RootsLive, QueryRegistered, Live, Idle, Slots

\* A registration never takes the place of an object that a running statement
\* calls.
LEMMA QueryKept ==
  ASSUME TypeOK, QueryRegistered, NEW t \in Slots, NEW o, ~Refused(func[t]),
         func' = [func EXCEPT ![t] = o], query' = query
  PROVE  QueryRegistered'
<1> SUFFICES ASSUME query.object # NoObject
             PROVE  \E s \in Slots : query.object = func'[s]
  BY DEF QueryRegistered
<1>1. PICK s \in Slots : query.object = func[s]
  BY DEF QueryRegistered
<1>2. Running
  BY DEF Running, Idle
<1>3. s # t
  BY <1>1, <1>2 DEF Refused
<1> QED BY <1>1, <1>3 DEF TypeOK

LEMMA NewLive ==
  ASSUME TypeOK, NEW o \in Objects, New(o)
  PROVE  /\ \A p \in Objects : heap[p] = "live" => heap'[p] = "live"
         /\ heap'[o] = "live"
BY DEF New, TypeOK

LEMMA ContainedStep == ContainedInv /\ [Next]_vars => ContainedInv'
<1> SUFFICES ASSUME ContainedInv, [Next]_vars PROVE ContainedInv'
  OBVIOUS
<1> USE ConstantsAssumption
<1>t. TypeOK /\ TypeOK'
  BY TypeStep DEF ContainedInv
\* A registration leaves its name with this slot, or with several.
<1>1. ASSUME NEW n \in Names, NEW a \in Arities, NEW o \in Objects,
             func' = [func EXCEPT ![<<n, a>>] = o],
             aggregates \subseteq aggregates',
             \A m \in Names \ {n} : functions'[m] = functions[m],
             o = functions'[n] \/ o \in aggregates'
      PROVE  FunctionsFollow'
  <2> SUFFICES ASSUME NEW m \in Names, NEW b \in Arities,
                      func'[<<m, b>>] # NoObject, func'[<<m, b>>] \notin aggregates',
                      \A c \in Arities \ {b} : func'[<<m, c>>] = NoObject
               PROVE  func'[<<m, b>>] = functions'[m]
    BY DEF FunctionsFollow, Alone, Slots
  <2>1. CASE m = n
    <3>1. b = a
      BY <1>t, <1>1, <2>1 DEF TypeOK, Slots
    <3> QED BY <1>t, <1>1, <2>1, <3>1 DEF TypeOK, Slots
  <2>2. CASE m # n
    <3>1. \A c \in Arities : func'[<<m, c>>] = func[<<m, c>>]
      BY <1>t, <1>1, <2>2 DEF TypeOK, Slots
    <3> QED BY <1>1, <2>2, <3>1 DEF ContainedInv, FunctionsFollow, Alone, Slots
  <2> QED BY <2>1, <2>2
<1>2. ASSUME UNCHANGED <<func, functions>>, aggregates \subseteq aggregates'
      PROVE  FunctionsFollow'
  BY <1>2 DEF ContainedInv, FunctionsFollow, Alone
<1>3. ASSUME NEW n \in Names, NEW a \in Arities,
             NEW o \in Objects, DefineFunction(n, a, o)
      PROVE  ContainedInv'
  <2>1. /\ UNCHANGED <<coll, collations, agregator, aggregates, query>>
        /\ \A p \in Objects : heap[p] = "live" => heap'[p] = "live"
        /\ heap'[o] = "live"
    BY <1>3, <1>t, NewLive DEF DefineFunction, queryVars
  <2>2. CASE Refused(func[<<n, a>>])
    <3>1. UNCHANGED <<func, functions>>
      BY <1>3, <2>2 DEF DefineFunction
    <3>2. RootsLive'
      BY <1>t, <2>1, <3>1 DEF ContainedInv, RootsLive, Live, TypeOK, Entries
    <3> QED BY <1>t, <1>2, <2>1, <3>1, <3>2 DEF ContainedInv, QueryRegistered
  <2>3. CASE ~Refused(func[<<n, a>>])
    <3>1. /\ func' = [func EXCEPT ![<<n, a>>] = o]
          /\ functions' = [functions EXCEPT ![n] = o]
          /\ <<n, a>> \in Slots
      BY <1>3, <2>3 DEF DefineFunction, Slots
    <3>2. FunctionsFollow'
      BY <1>t, <1>1, <2>1, <3>1 DEF TypeOK
    <3>3. RootsLive'
      BY <1>t, <2>1, <3>1 DEF ContainedInv, RootsLive, Live, TypeOK, Entries
    <3>4. QueryRegistered'
      BY <1>t, <2>1, <2>3, <3>1, QueryKept DEF ContainedInv
    <3> QED BY <1>t, <2>1, <3>2, <3>3, <3>4 DEF ContainedInv
  <2> QED BY <2>2, <2>3
<1>4. ASSUME NEW n \in Names, NEW a \in Arities,
             NEW o \in Objects, DefineAggregator(n, a, o)
      PROVE  ContainedInv'
  <2>1. /\ UNCHANGED <<coll, collations, functions, query>>
        /\ agregator' = o /\ aggregates' = aggregates \cup {o}
        /\ \A p \in Objects : heap[p] = "live" => heap'[p] = "live"
        /\ heap'[o] = "live"
    BY <1>4, <1>t, NewLive DEF DefineAggregator, queryVars
  <2>2. RootsLive'
    BY <1>t, <2>1 DEF ContainedInv, RootsLive, Live, TypeOK, Entries
  <2>3. CASE Refused(func[<<n, a>>])
    <3>1. UNCHANGED func
      BY <1>4, <2>3 DEF DefineAggregator
    <3> QED BY <1>t, <1>2, <2>1, <2>2, <3>1 DEF ContainedInv, QueryRegistered
  <2>4. CASE ~Refused(func[<<n, a>>])
    <3>1. func' = [func EXCEPT ![<<n, a>>] = o] /\ <<n, a>> \in Slots
      BY <1>4, <2>4 DEF DefineAggregator, Slots
    <3>2. FunctionsFollow'
      BY <1>1, <2>1, <3>1
    <3>3. QueryRegistered'
      BY <1>t, <2>1, <2>4, <3>1, QueryKept DEF ContainedInv
    <3> QED BY <1>t, <2>1, <2>2, <3>2, <3>3 DEF ContainedInv
  <2> QED BY <2>3, <2>4
<1>5. ASSUME NEW n \in Names, NEW o \in Objects, Collation(n, o)
      PROVE  ContainedInv'
  <2>1. /\ UNCHANGED <<func, functions, agregator, aggregates, query>>
        /\ \A p \in Objects : heap[p] = "live" => heap'[p] = "live"
        /\ heap'[o] = "live"
    BY <1>5, <1>t, NewLive DEF Collation, queryVars
  <2>2. \/ UNCHANGED <<coll, collations>>
        \/ /\ coll' = [coll EXCEPT ![n] = o]
           /\ collations' = [collations EXCEPT ![n] = o]
    BY <1>5 DEF Collation
  <2>3. coll' = collations'
    BY <2>2 DEF ContainedInv
  <2>4. RootsLive'
    BY <1>t, <2>1, <2>2 DEF ContainedInv, RootsLive, Live, TypeOK, Entries
  <2> QED BY <1>t, <1>2, <2>1, <2>3, <2>4 DEF ContainedInv, QueryRegistered
<1>6. ASSUME NEW n \in Names, RemoveCollation(n)
      PROVE  ContainedInv'
  <2>1. /\ UNCHANGED <<heap, func, functions, agregator, aggregates, query>>
        /\ coll' = [coll EXCEPT ![n] = NoObject]
        /\ collations' = [collations EXCEPT ![n] = NoObject]
    BY <1>6 DEF RemoveCollation, queryVars
  <2>2. RootsLive'
    BY <1>t, <2>1 DEF ContainedInv, RootsLive, Live, TypeOK
  <2> QED BY <1>t, <1>2, <2>1, <2>2 DEF ContainedInv, QueryRegistered
<1>7. ASSUME NEW o \in Objects, Collect(o)
      PROVE  ContainedInv'
  <2>1. UNCHANGED <<sqliteVars, rootVars, aggregates, query>>
    BY <1>7 DEF Collect, queryVars
  <2>2. RootsLive'
    BY <1>7, <1>t, <2>1 DEF Collect, Rooted, ContainedInv, RootsLive, Live, rootVars, TypeOK,
       Entries
  <2> QED
    BY <1>t, <1>2, <2>1, <2>2 DEF ContainedInv, QueryRegistered, sqliteVars, rootVars
<1>8. ASSUME UNCHANGED <<heap, sqliteVars, rootVars, aggregates>>,
             query'.object = NoObject \/ \E s \in Slots : query'.object = func[s]
      PROVE  ContainedInv'
  <2>1. RootsLive' /\ QueryRegistered'
    BY <1>8 DEF ContainedInv, RootsLive, Live, QueryRegistered, sqliteVars, rootVars
  <2> QED BY <1>8, <1>t, <1>2, <2>1 DEF ContainedInv, sqliteVars, rootVars
<1>9. ASSUME NEW s \in Slots, NEW calls \in SUBSET Exprs, StartQuery(s, calls)
      PROVE  ContainedInv'
  <2>1. <<s[1], AnyArity>> \in Slots
    BY DEF Slots
  <2>2. \E t \in Slots : query'.object = func[t]
    BY <1>9, <2>1 DEF StartQuery, Callee
  <2> QED BY <1>8, <1>9, <2>2 DEF StartQuery
<1>10. ASSUME UNCHANGED <<heap, sqliteVars, rootVars, aggregates>>, query'.object = query.object
       PROVE  ContainedInv'
  BY <1>8, <1>10 DEF ContainedInv, QueryRegistered
<1>11. ASSUME Row PROVE ContainedInv'
  BY <1>10, <1>11, <1>t DEF Row, TypeOK
<1>12. ASSUME NEW e \in Exprs, Final(e) PROVE ContainedInv'
  BY <1>10, <1>12, <1>t DEF Final, TypeOK
<1>13. ASSUME EndQuery PROVE ContainedInv'
  BY <1>8, <1>13 DEF EndQuery, Idle
<1>15. ASSUME NextGroup PROVE ContainedInv'
  BY <1>10, <1>15, <1>t DEF NextGroup, TypeOK
<1>14. ASSUME UNCHANGED vars PROVE ContainedInv'
  BY <1>10, <1>14 DEF vars, queryVars
<1> HIDE DEF ContainedInv
<1> QED
  BY <1>3, <1>4, <1>5, <1>6, <1>7, <1>9, <1>11, <1>12, <1>13, <1>14, <1>15
     DEF Next, Registration, CreateFunction, CreateAggregate

\* Whatever the application registers, and whenever, what SQLite may call is
\* alive, unless it is an aggregate other than the last one, or a function whose
\* name is registered for a second arity.
THEOREM CallbacksSafe == Spec => []DangerContained
<1>1. Init => ContainedInv
  BY InitContained
<1>2. ContainedInv => DangerContained
  <2> SUFFICES ASSUME ContainedInv PROVE DangerContained
    OBVIOUS
  <2>1. \A n \in Names : Live(coll[n])
    BY DEF ContainedInv, RootsLive
  <2>2. ASSUME NEW s \in Slots, ~Endangered(func[s]) PROVE Live(func[s])
    <3>1. s[1] \in Names
      BY DEF Slots
    <3>2. CASE func[s] \in aggregates
      BY <2>2, <3>2 DEF Endangered, ContainedInv, RootsLive
    <3>3. CASE func[s] \notin aggregates
      BY <2>2, <3>1, <3>3 DEF Endangered, ContainedInv, FunctionsFollow, RootsLive, Live
    <3> QED BY <3>2, <3>3
  <2>3. ~Endangered(query.object) => Live(query.object)
    BY <2>2 DEF ContainedInv, QueryRegistered, Live
  <2> QED BY <2>1, <2>2, <2>3 DEF DangerContained
<1> QED BY <1>1, <1>2, ContainedStep, PTL DEF Spec

-----------------------------------------------------------------------------
(* Totals of aggregates                                                      *)

\* A registered object has been born.
Born == \A s \in Slots : func[s] # NoObject => heap[func[s]] # "unborn"

\* An aggregate that is not spoilt holds no rows but those of the running
\* statement, while all the calls are still to be answered.
Totals ==
  \A o \in Objects \ spoilt :
    /\ o \notin aggregates \/ o # query.object => acc[o] = 0
    /\ o = query.object /\ o \in aggregates =>
         /\ query.left # query.calls \/ query.rows = 0 => acc[o] = 0
         /\ query.left = query.calls /\ Cardinality(query.calls) = 1 => acc[o] = query.rows

TotalsInv == ContainedInv /\ Born /\ query.left \subseteq query.calls /\ Totals

LEMMA CalleeRegistered ==
  ASSUME TypeOK, NEW s \in Slots, Callee(s) # NoObject
  PROVE  Callee(s) \in Objects /\ \E t \in Slots : Callee(s) = func[t]
<1>1. s \in Slots /\ <<s[1], AnyArity>> \in Slots
  BY ConstantsAssumption DEF Slots
<1> QED BY <1>1 DEF Callee, TypeOK, Entries

LEMMA TotalsStep == TotalsInv /\ [Next]_vars => TotalsInv'
<1> SUFFICES ASSUME TotalsInv, [Next]_vars PROVE TotalsInv'
  OBVIOUS
<1> USE ConstantsAssumption
<1>t. TypeOK /\ ContainedInv /\ ContainedInv' /\ Born /\ Totals /\ query.left \subseteq query.calls
  BY ContainedStep DEF TotalsInv, ContainedInv
<1>0. query.object # NoObject => query.object \in Objects /\ heap[query.object] # "unborn"
  BY <1>t DEF ContainedInv, QueryRegistered, Born, TypeOK, Entries
\* Whoever is registered anew, the running statement calls another object.
<1>1. ASSUME NEW o \in Objects, New(o), UNCHANGED queryVars,
             aggregates' \in {aggregates, aggregates \cup {o}},
             func' = func \/ \E s \in Slots : func' = [func EXCEPT ![s] = o]
      PROVE  TotalsInv'
  <2>1. query.object # o /\ heap' = [heap EXCEPT ![o] = "live"]
    BY <1>0, <1>1 DEF New, Entries, TypeOK
  <2>2. Born'
    BY <1>t, <1>1, <2>1 DEF Born, TypeOK, Entries
  <2>3. Totals'
    BY <1>t, <1>1, <2>1 DEF Totals, queryVars
  <2> QED BY <1>t, <1>1, <2>2, <2>3 DEF TotalsInv, queryVars
<1>2. ASSUME UNCHANGED <<func, aggregates, queryVars>>,
             \A o \in Objects : heap[o] # "unborn" => heap'[o] # "unborn"
      PROVE  TotalsInv'
  BY <1>t, <1>2 DEF TotalsInv, Born, Totals, queryVars, TypeOK, Entries
<1>3. ASSUME NEW n \in Names, NEW a \in Arities,
             NEW o \in Objects, DefineFunction(n, a, o) \/ DefineAggregator(n, a, o)
      PROVE  TotalsInv'
  <2>1. <<n, a>> \in Slots
    BY DEF Slots
  <2> QED BY <1>1, <1>3, <2>1 DEF DefineFunction, DefineAggregator
<1>4. ASSUME NEW n \in Names, NEW o \in Objects, Collation(n, o)
      PROVE  TotalsInv'
  BY <1>1, <1>4 DEF Collation
<1>5. ASSUME (\E n \in Names : RemoveCollation(n)) \/ (\E o \in Objects : Collect(o))
             \/ UNCHANGED vars
      PROVE  TotalsInv'
  BY <1>2, <1>5, <1>t DEF RemoveCollation, Collect, vars, sqliteVars, TypeOK
<1>6. ASSUME NEW s \in Slots, NEW calls \in SUBSET Exprs, StartQuery(s, calls)
      PROVE  TotalsInv'
  <2>1. /\ query'.object \in Objects /\ query'.calls = calls /\ query'.left = calls
        /\ query'.rows = 0 /\ UNCHANGED <<heap, func, aggregates, acc, spoilt>> /\ ~Running
    BY <1>6, <1>t, CalleeRegistered DEF StartQuery, sqliteVars
  <2>2. \A o \in Objects \ spoilt : acc[o] = 0
    BY <1>t, <2>1 DEF Totals, Running, Idle
  <2> QED BY <1>t, <2>1, <2>2 DEF TotalsInv, Born, Totals
<1>7. ASSUME Row
      PROVE  TotalsInv'
  <2>1. /\ query'.object = query.object /\ query'.calls = query.calls
        /\ query'.left = query.left /\ query'.rows = query.rows + 1
        /\ query.left = query.calls /\ query.object # NoObject
        /\ UNCHANGED <<heap, func, aggregates, spoilt>>
    BY <1>7, <1>t DEF Row, TypeOK, Running, Idle, sqliteVars
  <2>2. acc' = IF query.object \in aggregates
               THEN [acc EXCEPT ![query.object] = @ + Cardinality(query.calls)] ELSE acc
    BY <1>7 DEF Row
  <2>3. query.rows \in Nat
    BY <1>t DEF TypeOK
  <2>4. Totals'
    <3> SUFFICES ASSUME NEW o \in Objects \ spoilt
                 PROVE  /\ o \notin aggregates \/ o # query.object => acc'[o] = 0
                        /\ o = query.object /\ o \in aggregates /\ Cardinality(query.calls) = 1
                             => acc'[o] = query.rows + 1
      BY <2>1, <2>3 DEF Totals
    <3>1. ASSUME o \notin aggregates \/ o # query.object PROVE acc'[o] = 0
      BY <1>t, <2>2, <3>1 DEF Totals, TypeOK
    <3>2. ASSUME o = query.object, o \in aggregates, Cardinality(query.calls) = 1
          PROVE  acc'[o] = query.rows + 1
      BY <1>t, <2>1, <2>2, <3>2 DEF Totals, TypeOK
    <3> QED BY <3>1, <3>2
  <2> QED BY <1>t, <2>1, <2>4 DEF TotalsInv, Born
<1>8. ASSUME NEW e \in Exprs, Final(e)
      PROVE  TotalsInv'
  <2>1. /\ query'.object = query.object /\ query'.calls = query.calls
        /\ query'.left = query.left \ {e} /\ e \in query.left
        /\ query.object \in aggregates /\ query.object \in Objects
        /\ UNCHANGED <<heap, func, aggregates>>
    BY <1>8, <1>t DEF Final, TypeOK, sqliteVars
  <2>2. query'.left # query'.calls
    BY <1>t, <2>1
  <2>3. CASE query.object \in Keeping
    <3>1. spoilt' = spoilt \cup {query.object} /\ acc' = acc
      BY <1>8, <2>3 DEF Final
    <3> QED BY <1>t, <2>1, <3>1 DEF TotalsInv, Born, Totals
  <2>4. CASE query.object \notin Keeping
    <3>1. /\ spoilt' = spoilt \ {query.object}
          /\ acc' = [acc EXCEPT ![query.object] = 0]
      BY <1>8, <2>4 DEF Final
    <3>2. acc'[query.object] = 0 /\ \A o \in Objects \ {query.object} : acc'[o] = acc[o]
      BY <1>t, <2>1, <3>1 DEF TypeOK
    <3>3. Totals'
      BY <1>t, <2>1, <2>2, <3>1, <3>2 DEF Totals
    <3> QED BY <1>t, <2>1, <3>3 DEF TotalsInv, Born
  <2> QED BY <2>3, <2>4
<1>9. ASSUME NextGroup
      PROVE  TotalsInv'
  <2>1. /\ query'.object = query.object /\ query'.calls = query.calls
        /\ query'.left = query.calls /\ query'.rows = 0 /\ query.left = {}
        /\ query.calls # {}
        /\ UNCHANGED <<heap, func, aggregates, acc, spoilt>>
    BY <1>9, <1>t DEF NextGroup, TypeOK, Running, Idle, sqliteVars
  <2>2. Totals'
    BY <1>t, <2>1 DEF Totals
  <2> QED BY <1>t, <2>1, <2>2 DEF TotalsInv, Born
<1>10. ASSUME EndQuery
       PROVE  TotalsInv'
  <2>1. /\ query'.object = NoObject /\ query'.calls = {} /\ query'.left = {}
        /\ UNCHANGED <<heap, func, aggregates, acc>>
        /\ spoilt' = IF query.object \in aggregates /\ query.left # {} /\ query.rows > 0
                     THEN spoilt \cup {query.object} ELSE spoilt
    BY <1>10 DEF EndQuery, Idle, sqliteVars
  <2>2. query.object # NoObject => query.calls # {}
    BY <1>t DEF TypeOK
  <2>3. \A o \in Objects \ spoilt' : acc[o] = 0
    <3> SUFFICES ASSUME NEW o \in Objects, o \notin spoilt' PROVE acc[o] = 0
      OBVIOUS
    <3>1. o \notin spoilt
      BY <2>1
    <3>2. CASE o = query.object /\ o \in aggregates
      <4>1. query.left = {} \/ query.rows = 0
        BY <1>t, <2>1, <3>2 DEF TypeOK
      <4>2. query.left # query.calls \/ query.rows = 0
        BY <2>2, <3>2, <4>1
      <4> QED BY <1>t, <3>1, <3>2, <4>2 DEF Totals
    <3> QED BY <1>t, <3>1, <3>2 DEF Totals
  <2> QED BY <1>t, <2>1, <2>3 DEF TotalsInv, Born, Totals
<1> HIDE DEF TotalsInv
<1> QED
  BY <1>3, <1>4, <1>5, <1>6, <1>7, <1>8, <1>9, <1>10
     DEF Next, Registration, CreateFunction, CreateAggregate

\* For any application, any handlers and any number of rows: a query's only call
\* of an aggregate is answered for the rows of its own group, unless the object
\* carries the rows of an abandoned query or keeps its totals and has answered
\* before.
THEOREM AggregatesCorrect == Spec => AnswersItsRows
<1>1. Init => TotalsInv
  BY InitContained DEF Init, TotalsInv, Born, Totals, Slots, Idle
<1>2. TotalsInv /\ [Next]_vars => TotalsInv'
  BY TotalsStep
<1>3. TotalsInv => [\A e \in Exprs :
                     Final(e) /\ query.calls = {e} /\ query.object \notin spoilt =>
                       answer' = query.rows]_vars
  <2> SUFFICES ASSUME TotalsInv, NEW e \in Exprs, Final(e), query.calls = {e},
                      query.object \notin spoilt
               PROVE  answer' = query.rows
    OBVIOUS
  <2>1. /\ query.object \in aggregates /\ query.object \in Objects
        /\ query.left = query.calls /\ answer' = acc[query.object]
    BY DEF Final, TotalsInv, ContainedInv, TypeOK
  <2>2. Cardinality(query.calls) = 1
    BY FS_Singleton
  <2> QED BY <2>1, <2>2 DEF TotalsInv, Totals
<1> QED BY <1>1, <1>2, <1>3, PTL DEF Spec, AnswersItsRows
=============================================================================
