---------------------- MODULE DryPatchClusteringProofs ----------------------
(* What TLAPS proves of DryPatchClustering, for every size of the grid and  *)
(* every set of dry cells: type correctness, that the stack arrays are      *)
(* large enough, that the stamps are the connected sets, that the mask of   *)
(* the step shows those of MinSize cells or more, and a bound on its steps. *)
EXTENDS DryPatchClustering, FiniteSetTheorems, TLAPS

Flooding == pc \in {"pop", "push"}
Clustering == pc \in {"scan", "pop", "push", "correct"}

\* What the control state tells of the data.
Control ==
  /\ nb >= 1
  /\ Clustering \/ pc = "stopped" => ntot >= 1
  /\ Flooding => at \in Cells
  /\ pc = "pop" => stack # <<>>
  /\ pc \notin {"pop", "push", "stopped"} => stack = <<>>
  /\ \A c \in Cells : c \in dry <=> tmpar[c] >= 1

TypeInv == TypeOK /\ Control

\* The cells of the stack have the current stamp and are not repeated.
StackInv ==
  /\ \A k \in DOMAIN stack : tmpar[stack[k]] = ntot
  /\ \A k, m \in DOMAIN stack : stack[k] = stack[m] => k = m

OnStack(c) == \E k \in DOMAIN stack : stack[k] = c

\* The stamps given so far.
StampInv ==
  /\ Clustering => \A c \in Cells : tmpar[c] <= ntot
  /\ Flooding => ntot >= 2 /\ tmpar[at] = ntot
  /\ pc = "push" => tmpar[cur] = ntot /\ cur \in dry

\* A dry cell next to a stamped one has the same stamp, or is still to be
\* looked at.
Pending(a, b) ==
  /\ Flooding /\ tmpar[a] = ntot
  /\ OnStack(a) \/ (pc = "push" /\ a = cur /\ \E k \in dir .. 8 : b = Neighbour(cur, k))

ClosureInv ==
  Clustering => \A a, b \in dry :
    Adjacent(a, b) /\ tmpar[a] >= 2 => tmpar[b] = tmpar[a] \/ Pending(a, b)

\* Cells with the same stamp are connected.
ConnectedInv ==
  \A a, b \in dry : tmpar[a] >= 2 /\ tmpar[a] = tmpar[b] => Connected(a, b)

\* The scan leaves no dry cell without a stamp behind.
Before(c, d) == c[1] < d[1] \/ (c[1] = d[1] /\ c[2] < d[2])

ScannedInv ==
  /\ Clustering => \A c \in dry : Before(c, at) => tmpar[c] >= 2
  /\ pc = "correct" => \A c \in dry : tmpar[c] >= 2

IInv == TypeInv /\ StackInv /\ StampInv /\ ClosureInv /\ ConnectedInv /\ ScannedInv

-----------------------------------------------------------------------------
(* The grid                                                                *)

LEMMA CellsFinite == IsFiniteSet(Cells) /\ Cardinality(Cells) = NX * NY
<1>1. NX \in Int /\ NY \in Int /\ NX >= 1 /\ NY >= 1
  BY GridAssumption
<1>2. IsFiniteSet(1 .. NX) /\ Cardinality(1 .. NX) = NX
  BY <1>1, FS_Interval
<1>3. IsFiniteSet(1 .. NY) /\ Cardinality(1 .. NY) = NY
  BY <1>1, FS_Interval
<1> DEFINE I == 1 .. NX  J == 1 .. NY
<1> HIDE DEF I, J
<1>4. IsFiniteSet(I) /\ IsFiniteSet(J) /\ Cardinality(I) = NX /\ Cardinality(J) = NY
  BY <1>2, <1>3 DEF I, J
<1>5. IsFiniteSet(I \X J) /\ Cardinality(I \X J) = Cardinality(I) * Cardinality(J)
  BY <1>4, FS_Product
<1> QED
  BY <1>4, <1>5 DEF I, J, Cells

LEMMA NeighbourIsCell ==
  ASSUME NEW c \in Cells, NEW k \in 1 .. 8
  PROVE  Neighbour(c, k) \in Cells
BY GridAssumption DEF Neighbour, Cells, Up, Down

LEMMA AdjacentSymmetric ==
  ASSUME NEW a \in Cells, NEW b \in Cells, Adjacent(a, b)
  PROVE  Adjacent(b, a)
BY DEF Adjacent, Near

LEMMA NearIsStep ==
  ASSUME NEW n \in Nat \ {0}, NEW i \in 1 .. n, NEW k \in 1 .. n
  PROVE  Near(i, k, n) <=> k = i \/ k = Up(i, n) \/ k = Down(i, n)
BY DEF Near, Up, Down

\* The eight places looked at are the cells that touch, and perhaps the cell
\* itself on a grid one cell wide.
LEMMA AdjacentIsNeighbour ==
  ASSUME NEW a \in Cells, NEW b \in Cells
  PROVE  /\ Adjacent(a, b) => \E k \in 1 .. 8 : b = Neighbour(a, k)
         /\ \A k \in 1 .. 8 : b = Neighbour(a, k) /\ a # b => Adjacent(a, b)
<1>1. Near(a[1], b[1], NX) <=> b[1] \in {a[1], Up(a[1], NX), Down(a[1], NX)}
  BY GridAssumption, NearIsStep DEF Cells
<1>2. Near(a[2], b[2], NY) <=> b[2] \in {a[2], Up(a[2], NY), Down(a[2], NY)}
  BY GridAssumption, NearIsStep DEF Cells
<1>3. b = <<b[1], b[2]>> /\ a = <<a[1], a[2]>>
  BY DEF Cells
<1>4. ASSUME NEW k \in 1 .. 8, b = Neighbour(a, k), a # b
      PROVE  Adjacent(a, b)
  BY <1>1, <1>2, <1>3, <1>4 DEF Adjacent, Neighbour
<1>5. ASSUME Adjacent(a, b)
      PROVE  \E k \in 1 .. 8 : b = Neighbour(a, k)
  <2> DEFINE il == Down(a[1], NX)  ir == Up(a[1], NX)
             jd == Down(a[2], NY)  ju == Up(a[2], NY)
  <2>1. b \in {<<il, a[2]>>, <<ir, a[2]>>, <<a[1], ju>>, <<a[1], jd>>,
               <<il, jd>>, <<il, ju>>, <<ir, jd>>, <<ir, ju>>}
    BY <1>1, <1>2, <1>3, <1>5 DEF Adjacent
  <2>2. /\ Neighbour(a, 1) = <<il, a[2]>> /\ Neighbour(a, 2) = <<ir, a[2]>>
        /\ Neighbour(a, 3) = <<a[1], ju>> /\ Neighbour(a, 4) = <<a[1], jd>>
        /\ Neighbour(a, 5) = <<il, jd>> /\ Neighbour(a, 6) = <<il, ju>>
        /\ Neighbour(a, 7) = <<ir, jd>> /\ Neighbour(a, 8) = <<ir, ju>>
    BY DEF Neighbour
  <2> HIDE DEF il, ir, jd, ju
  <2>3. {1, 2, 3, 4, 5, 6, 7, 8} \subseteq 1 .. 8
    OBVIOUS
  <2> QED
    BY <2>1, <2>2, <2>3
<1> QED
  BY <1>4, <1>5

\* The scan order has no gap and ends after the last cell.
LEMMA ScanOrder ==
  ASSUME NEW d \in Cells
  PROVE  /\ After(d) \in (1 .. NX + 1) \X (1 .. NY)
         /\ \A c \in Cells : Before(c, After(d)) => c = d \/ Before(c, d)
<1>1. After(d) \in (1 .. NX + 1) \X (1 .. NY)
  BY GridAssumption DEF After, Cells
<1>2. ASSUME NEW c \in Cells, Before(c, After(d)), ~Before(c, d)
      PROVE  c[1] = d[1] /\ c[2] = d[2]
  BY <1>2, GridAssumption DEF After, Before, Cells
<1>3. \A c \in Cells : c = <<c[1], c[2]>>
  BY DEF Cells
<1> QED
  BY <1>1, <1>2, <1>3

-----------------------------------------------------------------------------
(* Connected sets                                                          *)

LEMMA ConnectedReflexive ==
  ASSUME NEW a \in dry
  PROVE  Connected(a, a)
BY DEF Connected

LEMMA ConnectedTransitive ==
  ASSUME NEW a \in dry, NEW b \in dry, NEW c \in dry, Connected(a, b), Connected(b, c)
  PROVE  Connected(a, c)
BY DEF Connected

LEMMA AdjacentConnected ==
  ASSUME NEW a \in dry, NEW b \in dry, Adjacent(a, b)
  PROVE  Connected(a, b)
BY DEF Connected, ClosedSet

LEMMA ConnectedSymmetric ==
  ASSUME dry \subseteq Cells, NEW a \in dry, NEW b \in dry, Connected(a, b)
  PROVE  Connected(b, a)
<1> SUFFICES ASSUME NEW S \in SUBSET dry, b \in S, ClosedSet(S), a \notin S
             PROVE  FALSE
  BY DEF Connected
<1>1. ClosedSet(dry \ S)
  <2> SUFFICES ASSUME NEW x \in dry \ S, NEW y \in dry, Adjacent(x, y)
               PROVE  y \notin S
    BY DEF ClosedSet
  <2>1. Adjacent(y, x)
    BY AdjacentSymmetric
  <2> QED
    BY <2>1 DEF ClosedSet
<1> QED
  BY <1>1 DEF Connected

LEMMA ConnectedUnchanged ==
  ASSUME dry' = dry, NEW a, NEW b
  PROVE  Connected(a, b)' <=> Connected(a, b)
BY DEF Connected, ClosedSet
-----------------------------------------------------------------------------
(* The invariant                                                           *)

LEMMA InitIInv == Init => IInv
<1> SUFFICES ASSUME Init PROVE IInv
  OBVIOUS
<1>1. TypeInv
  BY GridAssumption DEF Init, TypeInv, TypeOK, Control, Cells, Clustering, Flooding
<1>2. \A c \in Cells : tmpar[c] <= 1
  BY DEF Init
<1>3. StackInv /\ StampInv
  BY <1>2 DEF Init, StackInv, StampInv, Clustering, Flooding
<1>4. ClosureInv /\ ConnectedInv
  <2>1. \A c \in dry : c \in Cells /\ ~(tmpar[c] >= 2)
    BY <1>1, <1>2 DEF TypeInv, TypeOK
  <2> QED
    BY <2>1 DEF ClosureInv, ConnectedInv
<1>5. ScannedInv
  BY <1>1, GridAssumption DEF Init, ScannedInv, Clustering, Before, TypeInv, TypeOK, Cells
<1> QED
  BY <1>1, <1>3, <1>4, <1>5 DEF IInv

LEMMA TypeStep == TypeInv /\ StackInv /\ [Next]_vars => TypeInv'
<1> SUFFICES ASSUME TypeInv, StackInv, [Next]_vars PROVE TypeInv'
  OBVIOUS
<1> USE DEF TypeInv, TypeOK, Control, Clustering, Flooding
<1>1. CASE Found
  BY <1>1 DEF Found, maskVars
<1>2. CASE Pass
  <2>1. After(at) \in (1 .. NX + 1) \X (1 .. NY)
    BY <1>2, ScanOrder DEF Pass
  <2> QED
    BY <1>2, <2>1 DEF Pass, floodVars, maskVars
<1>3. CASE ScanDone
  BY <1>3 DEF ScanDone, floodVars, maskVars
<1>4. CASE Correct
  <2>1. maskout' \in [Cells -> Nat] /\ ntot' \in Nat
    BY <1>4 DEF Correct
  <2> QED
    BY <1>4, <2>1 DEF Correct, floodVars
<1>5. CASE Pop
  <2> DEFINE n == Len(stack)
  <2>1. /\ pc = "pop" /\ stack \in Seq(Cells) /\ stack # <<>> /\ n \in Nat
        /\ tmpar \in [Cells -> Nat] /\ ntot \in Nat /\ ntot >= 1
        /\ \A c \in Cells : c \in dry <=> tmpar[c] >= 1
    BY <1>5 DEF Pop
  <2>2. n >= 1 /\ stack[n] \in Cells /\ n \in DOMAIN stack
    BY ONLY <2>1
  <2>3. stack' \in Seq(Cells)
    <3>1. stack' = SubSeq(stack, 1, n - 1)
      BY <1>5 DEF Pop
    <3> QED
      BY ONLY <2>1, <2>2, <3>1
  <2>4. tmpar' = [tmpar EXCEPT ![stack[n]] = ntot] /\ tmpar[stack[n]] = ntot
    BY <1>5, <2>2 DEF Pop, StackInv
  <2>5. tmpar' = tmpar
    BY ONLY <2>1, <2>2, <2>4
  <2>6. /\ cur' \in Cells /\ dir' = 1 /\ pc' \in {"push", "stopped"}
        /\ dry' = dry /\ ntot' = ntot /\ at' = at /\ maskout' = maskout /\ nb' = nb
    BY <1>5, <2>2 DEF Pop, maskVars
  <2> HIDE DEF n
  <2>7. TypeOK'
    BY <2>3, <2>5, <2>6
  <2>8. Control'
    BY <2>1, <2>5, <2>6
  <2> QED
    BY <2>7, <2>8
<1>6. CASE Mark
  <2>1. Neighbour(cur, dir) \in Cells /\ tmpar[Neighbour(cur, dir)] = 1
    BY <1>6, NeighbourIsCell DEF Mark
  <2>2. /\ pc = "push" /\ pc' = pc /\ dir' \in 1 .. 9 /\ stack' = Append(stack, Neighbour(cur, dir))
        /\ tmpar' = [tmpar EXCEPT ![Neighbour(cur, dir)] = ntot]
        /\ dry' = dry /\ ntot' = ntot /\ at' = at /\ cur' = cur /\ maskout' = maskout /\ nb' = nb
    BY <1>6 DEF Mark, maskVars
  <2> HIDE DEF Neighbour
  <2>3. TypeOK'
    BY <2>1, <2>2
  <2>4. \A c \in Cells : c \in dry <=> tmpar'[c] >= 1
    BY <2>1, <2>2
  <2> QED
    BY <2>2, <2>3, <2>4
<1>7. CASE LeaveAlone
  BY <1>7 DEF LeaveAlone, maskVars
<1>8. CASE Loop
  <2>1. After(at) \in (1 .. NX + 1) \X (1 .. NY)
    BY <1>8, ScanOrder DEF Loop
  <2> QED
    BY <1>8, <2>1 DEF Loop, floodVars, maskVars
<1>9. CASE Erase
  <2>1. maskout' \in [Cells -> Nat]
    BY <1>9 DEF Erase
  <2> QED
    BY <1>9, <2>1 DEF Erase, floodVars
<1>10. CASE Keep
  BY <1>10 DEF Keep, floodVars
<1>11. CASE LimitDone
  BY <1>11 DEF LimitDone, floodVars, maskVars
<1>12. CASE UNCHANGED vars
  BY <1>12 DEF vars, floodVars, maskVars
<1> QED
  BY <1>1, <1>2, <1>3, <1>4, <1>5, <1>6, <1>7, <1>8, <1>9, <1>10, <1>11, <1>12 DEF Next

LEMMA ConnectedKept ==
  ASSUME ConnectedInv, dry' = dry, tmpar' = tmpar
  PROVE  ConnectedInv'
BY ConnectedUnchanged DEF ConnectedInv

\* Steps that leave the stamps, the stack and the scan alone.
LEMMA PassiveStep ==
  ASSUME IInv, dry' = dry, tmpar' = tmpar, stack' = stack,
         pc' \notin {"scan", "pop", "push", "correct"}, ntot' = ntot \/ stack = <<>>
  PROVE  StackInv' /\ StampInv' /\ ClosureInv' /\ ConnectedInv' /\ ScannedInv'
<1>1. StackInv'
  BY DEF IInv, StackInv
<1>2. ConnectedInv'
  BY ConnectedKept DEF IInv
<1> QED
  BY <1>1, <1>2 DEF StampInv, ClosureInv, ScannedInv, Clustering, Flooding

LEMMA FoundStep ==
  ASSUME IInv, TypeInv', Found
  PROVE  StackInv' /\ StampInv' /\ ClosureInv' /\ ConnectedInv' /\ ScannedInv'
<1> USE DEF IInv
<1>1. /\ pc = "scan" /\ pc' = "pop" /\ at \in Cells /\ at' = at /\ dry' = dry
      /\ tmpar[at] = 1 /\ at \in dry /\ ntot \in Nat /\ ntot >= 1 /\ ntot' = ntot + 1
      /\ dry \subseteq Cells
  BY DEF Found, TypeInv, TypeOK, Control, Clustering
<1>2. /\ \A c \in Cells : tmpar[c] \in Nat /\ tmpar[c] <= ntot
      /\ tmpar'[at] = ntot + 1 /\ \A c \in Cells \ {at} : tmpar'[c] = tmpar[c]
  BY <1>1 DEF Found, TypeInv, TypeOK, StampInv, Clustering
<1>3. stack' = <<at>> /\ OnStack(at)'
  BY DEF Found, OnStack
<1>4. StackInv' /\ StampInv'
  BY <1>1, <1>2, <1>3 DEF StackInv, StampInv, Clustering, Flooding
<1>5. ClosureInv'
  <2> SUFFICES ASSUME NEW a \in dry, NEW b \in dry, Adjacent(a, b), tmpar'[a] >= 2
               PROVE  tmpar'[b] = tmpar'[a] \/ Pending(a, b)'
    BY <1>1 DEF ClosureInv, Adjacent, Near, Up
  <2>1. CASE a = at
    BY <2>1, <1>1, <1>2, <1>3 DEF Pending, Flooding
  <2>2. CASE a # at
    <3>1. tmpar[b] = tmpar[a]
      BY <2>2, <1>1, <1>2 DEF ClosureInv, Clustering, Pending, Flooding
    <3> QED
      BY <3>1, <2>2, <1>1, <1>2
  <2> QED
    BY <2>1, <2>2
<1>6. ConnectedInv'
  <2> SUFFICES ASSUME NEW a \in dry, NEW b \in dry, tmpar'[a] >= 2, tmpar'[a] = tmpar'[b]
               PROVE  Connected(a, b)
    BY <1>1, ConnectedUnchanged DEF ConnectedInv
  <2>1. CASE a = at
    <3>1. b = at
      BY <2>1, <1>1, <1>2
    <3> QED
      BY <2>1, <3>1, ConnectedReflexive
  <2>2. CASE a # at
    <3>1. b # at
      BY <2>2, <1>1, <1>2
    <3> QED
      BY <2>2, <3>1, <1>1, <1>2 DEF ConnectedInv
  <2> QED
    BY <2>1, <2>2
<1>7. ScannedInv'
  BY <1>1, <1>2 DEF ScannedInv, Clustering, Before
<1> QED
  BY <1>4, <1>5, <1>6, <1>7

LEMMA PassStep ==
  ASSUME IInv, TypeInv', Pass
  PROVE  StackInv' /\ StampInv' /\ ClosureInv' /\ ConnectedInv' /\ ScannedInv'
<1> USE DEF IInv
<1>1. /\ pc = "scan" /\ pc' = pc /\ at \in Cells /\ at' = After(at) /\ dry' = dry
      /\ tmpar' = tmpar /\ ntot' = ntot /\ stack' = stack /\ cur' = cur /\ dir' = dir
      /\ tmpar[at] # 1 /\ tmpar[at] \in Nat /\ dry \subseteq Cells
  BY DEF Pass, TypeInv, TypeOK, floodVars
<1>2. StackInv' /\ StampInv' /\ ConnectedInv'
  BY <1>1, ConnectedKept DEF StackInv, StampInv, Clustering, Flooding
<1>3. ClosureInv'
  BY <1>1 DEF ClosureInv, Clustering, Pending, Flooding, Adjacent, Near, Up
<1>4. ScannedInv'
  <2>1. at \in dry => tmpar[at] >= 2
    BY <1>1 DEF TypeInv, Control
  <2> QED
    BY <2>1, <1>1, ScanOrder DEF ScannedInv, Clustering
<1> QED
  BY <1>2, <1>3, <1>4

LEMMA ScanDoneStep ==
  ASSUME IInv, TypeInv', ScanDone
  PROVE  StackInv' /\ StampInv' /\ ClosureInv' /\ ConnectedInv' /\ ScannedInv'
<1> USE DEF IInv
<1>1. /\ pc = "scan" /\ pc' = "correct" /\ at \notin Cells /\ at' = at /\ dry' = dry
      /\ tmpar' = tmpar /\ ntot' = ntot /\ stack' = stack /\ dry \subseteq Cells
      /\ at \in (1 .. NX + 1) \X (1 .. NY)
  BY DEF ScanDone, TypeInv, TypeOK, floodVars
<1>2. StackInv' /\ StampInv' /\ ConnectedInv'
  BY <1>1, ConnectedKept DEF StackInv, StampInv, Clustering, Flooding
<1>3. ClosureInv'
  BY <1>1 DEF ClosureInv, Clustering, Pending, Flooding, Adjacent, Near, Up
<1>4. ScannedInv'
  <2>1. at[1] = NX + 1
    BY <1>1, GridAssumption DEF Cells
  <2>2. \A c \in Cells : Before(c, at)
    BY <2>1, GridAssumption DEF Cells, Before
  <2> QED
    BY <2>2, <1>1 DEF ScannedInv, Clustering
<1> QED
  BY <1>2, <1>3, <1>4

LEMMA PopStep ==
  ASSUME IInv, TypeInv', Pop
  PROVE  StackInv' /\ StampInv' /\ ClosureInv' /\ ConnectedInv' /\ ScannedInv'
<1> USE DEF IInv
<1> DEFINE n == Len(stack)
           top == stack[n]
<1>1. /\ pc = "pop" /\ pc' \in {"push", "stopped"} /\ at' = at /\ at \in Cells /\ dry' = dry
      /\ ntot' = ntot /\ dry \subseteq Cells /\ stack \in Seq(Cells)
      /\ n \in Nat /\ n >= 1 /\ top \in Cells /\ cur' = top /\ dir' = 1
      /\ stack' = SubSeq(stack, 1, n - 1)
  <2>1. pc = "pop" /\ stack \in Seq(Cells) /\ stack # <<>> /\ at \in Cells /\ dry \subseteq Cells
    BY DEF Pop, TypeInv, TypeOK, Control, Flooding
  <2>2. n \in Nat /\ n >= 1 /\ top \in Cells
    BY <2>1
  <2>3. pc' \in {"push", "stopped"}
    BY DEF Pop
  <2> QED
    BY <2>1, <2>2, <2>3 DEF Pop
<1>2. /\ DOMAIN stack = 1 .. n /\ DOMAIN stack' = 1 .. n - 1
      /\ \A k \in 1 .. n - 1 : stack'[k] = stack[k]
  BY <1>1
<1>3. tmpar[top] = ntot /\ tmpar' = tmpar
  <2>1. tmpar[top] = ntot
    BY <1>1, <1>2 DEF StackInv
  <2> QED
    BY <2>1, <1>1 DEF Pop, TypeInv, TypeOK
<1> HIDE DEF n, top
<1>4. top \in dry /\ ntot \in Nat /\ ntot >= 2
  BY <1>1, <1>3 DEF StampInv, TypeInv, TypeOK, Control, Flooding
<1>5. StackInv' /\ StampInv' /\ ConnectedInv'
  <2>1. StackInv'
    BY <1>1, <1>2, <1>3 DEF StackInv
  <2> QED
    BY <2>1, <1>1, <1>3, <1>4, ConnectedKept DEF StampInv, Clustering, Flooding
<1>6. ClosureInv'
  <2> SUFFICES ASSUME NEW a \in dry, NEW b \in dry, Adjacent(a, b), tmpar[a] >= 2,
                      tmpar[b] # tmpar[a], pc' = "push"
               PROVE  Pending(a, b)'
    BY <1>1, <1>3 DEF ClosureInv, Adjacent, Near, Up, Clustering
  <2>1. tmpar[a] = ntot /\ OnStack(a)
    BY <1>1 DEF ClosureInv, Pending, Clustering
  <2>2. PICK k \in 1 .. n : stack[k] = a
    BY <2>1, <1>2 DEF OnStack
  <2>3. CASE a = top
    <3>1. \E j \in 1 .. 8 : b = Neighbour(a, j)
      BY <1>1, AdjacentIsNeighbour
    <3>2. \A c, j : Neighbour(c, j)' = Neighbour(c, j)
      BY DEF Neighbour, Up, Down
    <3> QED
      BY <3>1, <3>2, <2>1, <2>3, <1>1, <1>3 DEF Pending, Flooding, Neighbour, Up, Down
  <2>4. CASE a # top
    <3>1. k \in 1 .. n - 1
      BY <2>2, <2>4, <1>1 DEF top
    <3>2. OnStack(a)'
      BY <3>1, <2>2, <1>2 DEF OnStack
    <3> QED
      BY <3>2, <2>1, <1>1, <1>3 DEF Pending, Flooding
  <2> QED
    BY <2>3, <2>4
<1>7. ScannedInv'
  BY <1>1, <1>3 DEF ScannedInv, Clustering, Before
<1> QED
  BY <1>5, <1>6, <1>7

LEMMA MarkStep ==
  ASSUME IInv, TypeInv', Mark
  PROVE  StackInv' /\ StampInv' /\ ClosureInv' /\ ConnectedInv' /\ ScannedInv'
<1> USE DEF IInv
<1> DEFINE new == Neighbour(cur, dir)
           n == Len(stack)
<1>1. /\ pc = "push" /\ pc' = "push" /\ at' = at /\ at \in Cells /\ dry' = dry /\ cur' = cur
      /\ ntot' = ntot /\ dry \subseteq Cells /\ stack \in Seq(Cells) /\ n \in Nat
      /\ dir \in 1 .. 8 /\ dir' = dir + 1 /\ stack' = Append(stack, new)
      /\ tmpar[new] = 1 /\ cur \in dry /\ tmpar[cur] = ntot /\ ntot \in Nat /\ ntot >= 2
  BY DEF Mark, TypeInv, TypeOK, Control, StampInv, Flooding
<1>2. new \in Cells
  BY <1>1, NeighbourIsCell
<1>3. new \in dry /\ new # cur
  BY <1>1, <1>2 DEF TypeInv, Control
<1>4. /\ \A c \in Cells : tmpar[c] \in Nat /\ tmpar[c] <= ntot
      /\ tmpar'[new] = ntot /\ \A c \in Cells \ {new} : tmpar'[c] = tmpar[c]
  BY <1>1, <1>2 DEF Mark, TypeInv, TypeOK, StampInv, Clustering
<1>5. Adjacent(cur, new)
  BY <1>1, <1>2, <1>3, AdjacentIsNeighbour
<1> HIDE DEF new
<1>6. /\ DOMAIN stack = 1 .. n /\ DOMAIN stack' = 1 .. n + 1
      /\ \A k \in 1 .. n : stack'[k] = stack[k] /\ stack[k] \in Cells
      /\ stack'[n + 1] = new
  BY <1>1, <1>2
<1> HIDE DEF n
<1>7. StackInv'
  <2>1. \A k \in 1 .. n : tmpar[stack[k]] = ntot
    BY <1>6 DEF StackInv
  <2>2. \A k \in 1 .. n : stack[k] # new
    BY <2>1, <1>1
  <2>3. \A k \in DOMAIN stack' : tmpar'[stack'[k]] = ntot'
    BY <2>1, <2>2, <1>1, <1>4, <1>6
  <2>4. ASSUME NEW k \in DOMAIN stack', NEW m \in DOMAIN stack', stack'[k] = stack'[m]
        PROVE  k = m
    <3>1. CASE k \in 1 .. n /\ m \in 1 .. n
      BY <3>1, <2>4, <1>6 DEF StackInv
    <3>2. CASE k = n + 1 \/ m = n + 1
      BY <3>2, <2>2, <2>4, <1>1, <1>6
    <3> QED
      BY <3>1, <3>2, <1>1, <1>6
  <2> QED
    BY <2>3, <2>4 DEF StackInv
<1>8. StampInv'
  BY <1>1, <1>3, <1>4 DEF StampInv, Clustering, Flooding
<1>9. ClosureInv'
  <2> SUFFICES ASSUME NEW a \in dry, NEW b \in dry, Adjacent(a, b), tmpar'[a] >= 2,
                      tmpar'[b] # tmpar'[a]
               PROVE  Pending(a, b)'
    BY <1>1 DEF ClosureInv, Adjacent, Near, Up
  <2>1. CASE a = new
    <3>1. OnStack(a)'
      BY <2>1, <1>1, <1>6 DEF OnStack
    <3> QED
      BY <3>1, <2>1, <1>1, <1>4 DEF Pending, Flooding
  <2>2. CASE a # new
    <3>1. tmpar[a] = tmpar'[a] /\ tmpar[b] # tmpar[a]
      BY <2>2, <1>1, <1>4
    <3>2. Pending(a, b)
      BY <3>1, <1>1 DEF ClosureInv, Clustering
    <3>3. CASE OnStack(a)
      <4>1. OnStack(a)'
        BY <3>3, <1>1, <1>6 DEF OnStack
      <4> QED
        BY <4>1, <3>1, <3>2, <1>1 DEF Pending, Flooding
    <3>4. CASE ~OnStack(a)
      <4>1. PICK k \in dir .. 8 : a = cur /\ b = Neighbour(cur, k)
        BY <3>2, <3>4 DEF Pending
      <4>2. k # dir
        BY <4>1, <3>1, <3>2, <1>1, <1>4 DEF new, Pending
      <4>3. k \in dir' .. 8 /\ b = Neighbour(cur, k)'
        BY <4>1, <4>2, <1>1 DEF Neighbour, Up, Down
      <4> QED
        BY <4>1, <4>3, <3>1, <3>2, <1>1 DEF Pending, Flooding, Neighbour, Up, Down
    <3> QED
      BY <3>3, <3>4
  <2> QED
    BY <2>1, <2>2
<1>10. ConnectedInv'
  <2>1. ASSUME NEW a \in dry, tmpar[a] = ntot
        PROVE  Connected(a, new) /\ Connected(new, a)
    <3>1. Connected(a, cur)
      BY <2>1, <1>1 DEF ConnectedInv
    <3>2. Connected(cur, new)
      BY <1>1, <1>3, <1>5, AdjacentConnected
    <3>3. Connected(a, new)
      BY <3>1, <3>2, <1>1, <1>3, ConnectedTransitive
    <3> QED
      BY <3>3, <1>1, <1>3, ConnectedSymmetric
  <2> SUFFICES ASSUME NEW a \in dry, NEW b \in dry, tmpar'[a] >= 2, tmpar'[a] = tmpar'[b]
               PROVE  Connected(a, b)
    BY <1>1, ConnectedUnchanged DEF ConnectedInv
  <2>2. CASE a = new /\ b = new
    BY <2>2, ConnectedReflexive
  <2>3. CASE a # new /\ b # new
    BY <2>3, <1>1, <1>4 DEF ConnectedInv
  <2>4. CASE a = new /\ b # new
    BY <2>4, <2>1, <1>1, <1>4
  <2>5. CASE a # new /\ b = new
    BY <2>5, <2>1, <1>1, <1>4
  <2> QED
    BY <2>2, <2>3, <2>4, <2>5
<1>11. ScannedInv'
  BY <1>1, <1>4 DEF ScannedInv, Clustering, Before
<1> QED
  BY <1>7, <1>8, <1>9, <1>10, <1>11

LEMMA LeaveAloneStep ==
  ASSUME IInv, TypeInv', LeaveAlone
  PROVE  StackInv' /\ StampInv' /\ ClosureInv' /\ ConnectedInv' /\ ScannedInv'
<1> USE DEF IInv
<1>1. /\ pc = "push" /\ pc' = pc /\ at' = at /\ at \in Cells /\ dry' = dry /\ cur' = cur
      /\ ntot' = ntot /\ dry \subseteq Cells /\ stack' = stack /\ tmpar' = tmpar
      /\ dir \in 1 .. 8 /\ dir' = dir + 1 /\ tmpar[Neighbour(cur, dir)] # 1
      /\ cur \in dry /\ tmpar[cur] = ntot /\ ntot \in Nat /\ ntot >= 2
  BY DEF LeaveAlone, TypeInv, TypeOK, Control, StampInv, Flooding
<1>2. StackInv' /\ StampInv' /\ ConnectedInv' /\ ScannedInv'
  BY <1>1, ConnectedKept DEF StackInv, StampInv, Clustering, Flooding, ScannedInv, Before
<1>3. ClosureInv'
  <2> SUFFICES ASSUME NEW a \in dry, NEW b \in dry, Adjacent(a, b), tmpar[a] >= 2,
                      tmpar[b] # tmpar[a]
               PROVE  Pending(a, b)'
    BY <1>1 DEF ClosureInv, Adjacent, Near, Up
  <2>1. Pending(a, b)
    BY <1>1 DEF ClosureInv, Clustering
  <2>2. CASE OnStack(a)
    BY <2>1, <2>2, <1>1 DEF Pending, Flooding, OnStack
  <2>3. CASE ~OnStack(a)
    <3>1. PICK k \in dir .. 8 : a = cur /\ b = Neighbour(cur, k)
      BY <2>1, <2>3 DEF Pending
    <3>2. k # dir
      <4> SUFFICES ASSUME k = dir PROVE FALSE
        OBVIOUS
      <4>1. tmpar[b] \in Nat /\ tmpar[b] >= 1 /\ tmpar[b] # 1
        BY <3>1, <1>1 DEF TypeInv, TypeOK, Control
      <4>2. Adjacent(b, a)
        BY <1>1, AdjacentSymmetric
      <4>3. tmpar[a] = tmpar[b] \/ tmpar[b] = ntot
        BY <4>1, <4>2, <1>1 DEF ClosureInv, Clustering, Pending
      <4> QED
        BY <4>3, <3>1, <1>1
    <3>3. k \in dir' .. 8 /\ b = Neighbour(cur, k)'
      BY <3>1, <3>2, <1>1 DEF Neighbour, Up, Down
    <3> QED
      BY <3>1, <3>3, <2>1, <1>1 DEF Pending, Flooding, Neighbour, Up, Down
  <2> QED
    BY <2>2, <2>3
<1> QED
  BY <1>2, <1>3

LEMMA LoopStep ==
  ASSUME IInv, TypeInv', Loop
  PROVE  StackInv' /\ StampInv' /\ ClosureInv' /\ ConnectedInv' /\ ScannedInv'
<1> USE DEF IInv
<1>1. /\ pc = "push" /\ at \in Cells /\ dry' = dry /\ cur' = cur /\ dir = 9 /\ dir' = dir
      /\ ntot' = ntot /\ dry \subseteq Cells /\ stack' = stack /\ tmpar' = tmpar
      /\ tmpar[at] = ntot /\ ntot \in Nat /\ ntot >= 2
  BY DEF Loop, TypeInv, TypeOK, Control, StampInv, Flooding, floodVars
<1>2. \A a, b \in dry : Adjacent(a, b) /\ tmpar[a] >= 2 /\ tmpar[b] # tmpar[a] =>
        tmpar[a] = ntot /\ OnStack(a)
  BY <1>1 DEF ClosureInv, Clustering, Pending
<1>3. ConnectedInv'
  BY <1>1, ConnectedKept
<1>4. CASE stack # <<>>
  <2>1. pc' = "pop" /\ at' = at
    BY <1>4 DEF Loop
  <2> QED
    BY <2>1, <1>1, <1>2, <1>3
    DEF StackInv, StampInv, ClosureInv, ScannedInv, Clustering, Flooding, Pending, OnStack,
        Before, Adjacent, Near, Up
<1>5. CASE stack = <<>>
  <2>1. pc' = "scan" /\ at' = After(at)
    BY <1>5 DEF Loop
  <2>2. StackInv' /\ StampInv'
    BY <2>1, <1>1 DEF StackInv, StampInv, Clustering, Flooding
  <2>3. \A a : ~OnStack(a)
    BY <1>5 DEF OnStack
  <2>4. ClosureInv'
    BY <2>1, <2>3, <1>1, <1>2 DEF ClosureInv, Adjacent, Near, Up
  <2>5. ScannedInv'
    BY <2>1, <1>1, ScanOrder DEF ScannedInv, Clustering
  <2> QED
    BY <2>2, <2>4, <2>5, <1>3
<1> QED
  BY <1>4, <1>5

LEMMA NextIInv == IInv /\ [Next]_vars => IInv'
<1> SUFFICES ASSUME IInv, [Next]_vars PROVE IInv'
  OBVIOUS
<1>1. TypeInv'
  BY TypeStep DEF IInv
<1>2. SUFFICES StackInv' /\ StampInv' /\ ClosureInv' /\ ConnectedInv' /\ ScannedInv'
  BY <1>1 DEF IInv
<1>3. CASE Found
  BY <1>1, <1>3, FoundStep
<1>4. CASE Pass
  BY <1>1, <1>4, PassStep
<1>5. CASE ScanDone
  BY <1>1, <1>5, ScanDoneStep
<1>6. CASE Pop
  BY <1>1, <1>6, PopStep
<1>7. CASE Mark
  BY <1>1, <1>7, MarkStep
<1>8. CASE LeaveAlone
  BY <1>1, <1>8, LeaveAloneStep
<1>9. CASE Loop
  BY <1>1, <1>9, LoopStep
<1>10. CASE Correct \/ Erase \/ Keep \/ LimitDone
  <2>1. /\ dry' = dry /\ tmpar' = tmpar /\ stack' = stack /\ stack = <<>>
        /\ pc' \notin {"scan", "pop", "push", "correct"}
    BY <1>10 DEF Correct, Erase, Keep, LimitDone, floodVars, IInv, TypeInv, Control
  <2> QED
    BY <2>1, PassiveStep
<1>11. CASE UNCHANGED vars
  <2>1. /\ dry' = dry /\ tmpar' = tmpar /\ stack' = stack /\ pc' = pc /\ ntot' = ntot
        /\ at' = at /\ cur' = cur /\ dir' = dir
    BY <1>11 DEF vars, floodVars
  <2>2. StackInv' /\ StampInv' /\ ScannedInv'
    BY <2>1 DEF IInv, StackInv, StampInv, ScannedInv, Clustering, Flooding, Before
  <2>3. \A a, b : Pending(a, b)' <=> Pending(a, b)
    BY <2>1 DEF Pending, Flooding, OnStack, Neighbour, Up, Down
  <2>4. ClosureInv'
    BY <2>1, <2>3 DEF IInv, ClosureInv, Clustering, Adjacent, Near, Up
  <2> QED
    BY <2>1, <2>2, <2>4, ConnectedKept DEF IInv
<1> QED
  BY <1>3, <1>4, <1>5, <1>6, <1>7, <1>8, <1>9, <1>10, <1>11 DEF Next

THEOREM Invariance == Spec => []IInv
BY InitIInv, NextIInv, PTL DEF Spec

-----------------------------------------------------------------------------
(* Theorems                                                                *)

\* In every reachable state the variables have their types.
THEOREM TypeCorrect == Spec => []TypeOK
<1>1. IInv => TypeOK
  BY DEF IInv, TypeInv
<1> QED
  BY <1>1, Invariance, PTL

\* The stack never holds a cell twice, so the arrays indx and indy, of one
\* place for each cell, are large enough on every grid.
THEOREM StackLargeEnough == Spec => []StackFits
<1>1. ASSUME IInv PROVE StackFits
  <2> DEFINE n == Len(stack)
  <2>1. stack \in Seq(Cells) /\ n \in Nat /\ DOMAIN stack = 1 .. n
    BY <1>1 DEF IInv, TypeInv, TypeOK
  <2>2. stack \in [1 .. n -> Cells] /\ \A k, m \in 1 .. n : stack[k] = stack[m] => k = m
    BY <1>1, <2>1 DEF IInv, StackInv
  <2> HIDE DEF n
  <2>3. stack \in Injection(1 .. n, Cells)
    BY <2>2 DEF Injection, IsInjective
  <2>4. Cardinality(1 .. n) <= Cardinality(Cells)
    BY <2>3, CellsFinite, FS_Injection
  <2>5. Cardinality(1 .. n) = n
    BY <2>1, FS_Interval
  <2>6. n <= NX * NY
    BY <2>4, <2>5, CellsFinite
  <2> QED
    BY <2>1, <2>2, <2>6 DEF StackFits, n
<1> QED
  BY <1>1, Invariance, PTL

\* Equal stamps are connection on the grid the code uses.
StampsAreComponents ==
  pc = "correct" => \A a, b \in dry : tmpar[a] = tmpar[b] <=> Connected(a, b)

LEMMA StampsHold ==
  ASSUME IInv
  PROVE  StampsAreComponents
<1> SUFFICES ASSUME pc = "correct", NEW a \in dry, NEW b \in dry
             PROVE  tmpar[a] = tmpar[b] <=> Connected(a, b)
  BY DEF StampsAreComponents
<1>1. \A c \in dry : tmpar[c] >= 2
  BY DEF IInv, ScannedInv
<1>2. ASSUME tmpar[a] = tmpar[b] PROVE Connected(a, b)
  BY <1>1, <1>2 DEF IInv, ConnectedInv
<1>3. ASSUME Connected(a, b) PROVE tmpar[a] = tmpar[b]
  <2> DEFINE S == {c \in dry : tmpar[c] = tmpar[a]}
  <2>1. ClosedSet(S)
    BY <1>1 DEF IInv, ClosureInv, Clustering, Pending, Flooding, ClosedSet
  <2> QED
    BY <1>3, <2>1 DEF Connected
<1> QED
  BY <1>2, <1>3

\* An event of the grid periodic in x is closed under touching inside it, and
\* lies in one connected set of the grid the code uses.
LEMMA EventFacts ==
  ASSUME NEW a \in dry
  PROVE  /\ a \in Event(a)
         /\ \A c \in Event(a), d \in dry : Inside(c, d) => d \in Event(a)
         /\ \A b \in Event(a) : b \in dry /\ Connected(a, b)
<1>1. a \in Event(a)
  BY DEF Event
<1>2. ASSUME NEW c \in Event(a), NEW d \in dry, Inside(c, d)
      PROVE  d \in Event(a)
  BY <1>2 DEF Event
<1>3. ASSUME NEW b \in Event(a)
      PROVE  b \in dry /\ Connected(a, b)
  <2>1. ASSUME NEW S \in SUBSET dry, a \in S, ClosedSet(S)
        PROVE  b \in S
    <3>1. \A c \in S, d \in dry : Inside(c, d) => d \in S
      BY <2>1 DEF ClosedSet, Inside
    <3> QED
      BY <2>1, <3>1 DEF Event
  <2> QED
    BY <2>1 DEF Connected, Event
<1> QED
  BY <1>1, <1>2, <1>3

LEMMA EventStamps ==
  ASSUME StampsAreComponents
  PROVE  StampsAreEvents
<1> SUFFICES ASSUME pc = "correct", NEW a \in dry
    PROVE  /\ \A b \in Event(a) : tmpar[b] = tmpar[a]
           /\ \A b \in dry : Adjacent(a, b) /\ ~Inside(a, b) => tmpar[b] = tmpar[a]
           /\ \A b \in dry \ Event(a) : tmpar[b] = tmpar[a] =>
                \E c \in Event(a), d \in dry \ Event(a) : Adjacent(c, d) /\ ~Inside(c, d)
           /\ {b \in dry : tmpar[b] = tmpar[a]} = Component(a)
  BY DEF StampsAreEvents
<1>1. \A b \in dry : tmpar[a] = tmpar[b] <=> Connected(a, b)
  BY DEF StampsAreComponents
<1>2. \A b \in Event(a) : tmpar[b] = tmpar[a]
  BY <1>1, EventFacts
<1>3. \A b \in dry : Adjacent(a, b) /\ ~Inside(a, b) => tmpar[b] = tmpar[a]
  BY <1>1, AdjacentConnected
<1>4. ASSUME NEW b \in dry \ Event(a), tmpar[b] = tmpar[a]
      PROVE  \E c \in Event(a), d \in dry \ Event(a) : Adjacent(c, d) /\ ~Inside(c, d)
  <2>1. Connected(a, b) /\ a \in Event(a) /\ Event(a) \in SUBSET dry
    BY <1>1, <1>4, EventFacts
  <2>2. ~ClosedSet(Event(a))
    BY <1>4, <2>1 DEF Connected
  <2>3. PICK c \in Event(a), d \in dry : Adjacent(c, d) /\ d \notin Event(a)
    BY <2>2 DEF ClosedSet
  <2>4. ~Inside(c, d)
    BY <2>3, EventFacts
  <2> QED
    BY <2>3, <2>4
<1>5. {b \in dry : tmpar[b] = tmpar[a]} = Component(a)
  BY <1>1 DEF Component
<1> QED
  BY <1>2, <1>3, <1>4, <1>5

\* When the scan is over, on every grid and for every mask: an event of the grid
\* the comment describes has one stamp, two events share one only where they are
\* joined over the y border, and what is joined there has one.
THEOREM ClustersCorrect == Spec => []StampsAreEvents
BY Invariance, StampsHold, EventStamps, PTL

-----------------------------------------------------------------------------
(* The size limit                                                          *)

\* Every stamp given is the stamp of some cell.
StampsUsed == Clustering => \A k \in 2 .. ntot : \E c \in Cells : tmpar[c] = k

Limiting == pc \in {"limit", "done"}

\* While small patches are erased: the numbers are 1 .. ntot, a number is one
\* component, the patches before nb are large enough, and a dry cell without a
\* number is of a component that is too small.
NumbersDense ==
  /\ 1 <= nb /\ nb <= ntot + 1
  /\ \A c \in Cells : maskout[c] <= ntot
  /\ \A k \in 1 .. ntot : \E c \in Cells : maskout[c] = k

NumbersAreComponents ==
  /\ \A c \in Cells : maskout[c] # 0 => c \in dry
  /\ \A a, b \in Cells : maskout[a] # 0 =>
        (maskout[b] = maskout[a] <=> b \in Component(a))

SizesTested ==
  /\ \A c \in Cells : maskout[c] \in 1 .. nb - 1 => Cardinality(Component(c)) >= MinSize
  /\ \A c \in dry : maskout[c] = 0 => Cardinality(Component(c)) < MinSize

LimitInv ==
  /\ Limiting => NumbersDense /\ NumbersAreComponents /\ SizesTested
  /\ pc = "done" => nb > ntot

PatchInv == IInv /\ StampsUsed /\ LimitInv

LEMMA ComponentUnchanged ==
  ASSUME dry' = dry, NEW c
  PROVE  Component(c)' = Component(c)
BY ConnectedUnchanged DEF Component

LEMMA StampsStep ==
  ASSUME IInv, StampsUsed, [Next]_vars
  PROVE  StampsUsed'
<1>1. /\ tmpar \in [Cells -> Nat] /\ ntot \in Nat
      /\ Clustering => ntot >= 1
      /\ pc = "push" => cur \in Cells /\ dir \in 1 .. 9
  BY DEF IInv, TypeInv, TypeOK, Control
<1>2. ASSUME NEW d \in Cells, tmpar[d] = 1, Clustering,
             tmpar' = [tmpar EXCEPT ![d] = ntot'], ntot' \in {ntot, ntot + 1}
      PROVE  StampsUsed'
  <2> SUFFICES ASSUME NEW k \in 2 .. ntot' PROVE \E c \in Cells : tmpar'[c] = k
    BY DEF StampsUsed
  <2>1. CASE k = ntot'
    BY <1>1, <1>2, <2>1
  <2>2. CASE k # ntot'
    <3>1. k \in 2 .. ntot
      BY <1>1, <1>2, <2>2
    <3>2. PICK c \in Cells : tmpar[c] = k
      BY <1>2, <3>1 DEF StampsUsed
    <3>3. tmpar'[c] = k
      BY <1>1, <1>2, <3>1, <3>2
    <3> QED
      BY <3>3
  <2> QED
    BY <2>1, <2>2
<1>3. ASSUME tmpar' = tmpar, ntot' = ntot, Clustering' => Clustering
      PROVE  StampsUsed'
  BY <1>3 DEF StampsUsed
<1>4. CASE Found
  <2>1. Clustering
    BY <1>4 DEF Found, Clustering
  <2> QED
    BY <1>2, <1>4, <2>1 DEF Found
<1>5. CASE Mark
  <2>1. Clustering /\ Neighbour(cur, dir) \in Cells
    BY <1>1, <1>5, NeighbourIsCell DEF Mark, Clustering
  <2> QED
    BY <1>2, <1>5, <2>1 DEF Mark
<1>6. CASE Pop
  <2>1. stack \in Seq(Cells) /\ stack # <<>>
    BY <1>6 DEF Pop, IInv, TypeInv, TypeOK, Control
  <2>2. Len(stack) \in DOMAIN stack
    BY <2>1
  <2>3. tmpar[stack[Len(stack)]] = ntot
    BY <2>2 DEF IInv, StackInv
  <2>4. tmpar' = tmpar
    BY <1>1, <1>6, <2>3 DEF Pop
  <2> QED
    BY <1>3, <1>6, <2>4 DEF Pop, Clustering
<1>7. CASE Pass \/ ScanDone \/ LeaveAlone \/ Loop
  BY <1>3, <1>7 DEF Pass, ScanDone, LeaveAlone, Loop, Clustering
<1>8. CASE Correct \/ Erase \/ Keep \/ LimitDone
  BY <1>8 DEF Correct, Erase, Keep, LimitDone, StampsUsed, Clustering
<1>9. CASE UNCHANGED vars
  BY <1>3, <1>9 DEF vars, Clustering
<1> QED
  BY <1>4, <1>5, <1>6, <1>7, <1>8, <1>9 DEF Next

\* The renumbering of Correct.
LEMMA CorrectLimit ==
  ASSUME IInv, StampsUsed, StampsAreComponents, Correct
  PROVE  LimitInv'
<1>1. /\ pc = "correct" /\ Clustering /\ dry' = dry /\ nb' = 1 /\ ntot' = ntot - 1
      /\ maskout' = [c \in Cells |-> IF c \in dry THEN tmpar[c] - 1 ELSE 0]
      /\ ntot \in Nat /\ ntot >= 1 /\ tmpar \in [Cells -> Nat] /\ dry \subseteq Cells
  BY DEF Correct, Clustering, IInv, TypeInv, TypeOK, Control
<1>2. \A c \in dry : tmpar[c] >= 2 /\ tmpar[c] <= ntot
  BY <1>1 DEF IInv, ScannedInv, StampInv
<1>3. \A c \in Cells : maskout'[c] # 0 <=> c \in dry
  BY <1>1, <1>2
<1>4. NumbersDense'
  <2>1. \A c \in Cells : maskout'[c] <= ntot'
    BY <1>1, <1>2
  <2>2. ASSUME NEW k \in 1 .. ntot' PROVE \E c \in Cells : maskout'[c] = k
    <3>1. k + 1 \in 2 .. ntot
      BY <1>1
    <3>2. PICK c \in Cells : tmpar[c] = k + 1
      BY <1>1, <3>1 DEF StampsUsed
    <3>3. c \in dry
      BY <3>1, <3>2 DEF IInv, TypeInv, Control
    <3> QED
      BY <1>1, <3>1, <3>2, <3>3
  <2> QED
    BY <1>1, <2>1, <2>2 DEF NumbersDense
<1>5. NumbersAreComponents'
  <2> SUFFICES ASSUME NEW a \in Cells, NEW b \in Cells, maskout'[a] # 0
               PROVE  maskout'[b] = maskout'[a] <=> b \in Component(a)
    BY <1>1, <1>3, ComponentUnchanged DEF NumbersAreComponents
  <2>1. a \in dry
    BY <1>3
  <2>2. CASE b \in dry
    <3>1. maskout'[b] = maskout'[a] <=> tmpar[b] = tmpar[a]
      BY <1>1, <2>1, <2>2
    <3> QED
      BY <1>1, <2>1, <2>2, <3>1 DEF StampsAreComponents, Component
  <2>3. CASE b \notin dry
    BY <1>1, <1>3, <2>1, <2>3 DEF Component
  <2> QED
    BY <2>2, <2>3
<1>6. SizesTested'
  BY <1>1, <1>3 DEF SizesTested
<1>7. pc' # "done"
  BY DEF Correct
<1> QED
  BY <1>4, <1>5, <1>6, <1>7 DEF LimitInv

\* The cells that have the number of a patch are its component.
LEMMA PatchIsComponent ==
  ASSUME NumbersAreComponents, dry \subseteq Cells, NEW c \in Cells, maskout[c] # 0
  PROVE  PatchCells(maskout[c]) = Component(c)
BY DEF NumbersAreComponents, PatchCells, Component

LEMMA EraseLimit ==
  ASSUME IInv, LimitInv, Erase
  PROVE  LimitInv'
<1>1. /\ pc = "limit" /\ nb <= ntot /\ Cardinality(PatchCells(nb)) < MinSize
      /\ dry' = dry /\ nb' = nb /\ ntot' = ntot - 1
      /\ maskout' = [c \in Cells |-> CASE maskout[c] < nb -> maskout[c]
                                       [] maskout[c] = nb -> 0
                                       [] OTHER           -> maskout[c] - 1]
      /\ ntot \in Nat /\ nb \in Nat /\ maskout \in [Cells -> Nat] /\ dry \subseteq Cells
  BY DEF Erase, floodVars, IInv, TypeInv, TypeOK
<1>2. NumbersDense /\ NumbersAreComponents /\ SizesTested
  BY <1>1 DEF LimitInv, Limiting
<1>3. \A c \in Cells : /\ maskout[c] < nb => maskout'[c] = maskout[c]
                       /\ maskout[c] = nb => maskout'[c] = 0
                       /\ maskout[c] > nb => maskout'[c] = maskout[c] - 1
  BY <1>1
<1>4. nb >= 1
  BY <1>2 DEF NumbersDense
<1>5. NumbersDense'
  <2>1. \A c \in Cells : maskout'[c] <= ntot'
    BY <1>1, <1>2, <1>3 DEF NumbersDense
  <2>2. ASSUME NEW k \in 1 .. ntot' PROVE \E c \in Cells : maskout'[c] = k
    <3>1. CASE k < nb
      <4>1. PICK c \in Cells : maskout[c] = k
        BY <1>1, <1>2, <3>1 DEF NumbersDense
      <4> QED
        BY <1>3, <3>1, <4>1
    <3>2. CASE k >= nb
      <4>1. k + 1 \in 1 .. ntot
        BY <1>1
      <4>2. PICK c \in Cells : maskout[c] = k + 1
        BY <1>2, <4>1 DEF NumbersDense
      <4> QED
        BY <1>1, <1>3, <3>2, <4>2
    <3> QED
      BY <1>1, <3>1, <3>2
  <2> QED
    BY <1>1, <1>4, <2>1, <2>2 DEF NumbersDense
<1>6. NumbersAreComponents'
  <2> SUFFICES ASSUME NEW a \in Cells, NEW b \in Cells, maskout'[a] # 0
               PROVE  /\ a \in dry
                      /\ maskout'[b] = maskout'[a] <=> b \in Component(a)
    BY <1>1, ComponentUnchanged DEF NumbersAreComponents
  <2>1. maskout[a] # 0 /\ maskout[a] # nb
    BY <1>1, <1>3, <1>4
  <2>2. maskout'[b] = maskout'[a] <=> maskout[b] = maskout[a]
    <3>1. maskout[a] \in Nat /\ maskout[b] \in Nat /\ nb \in Nat
      BY <1>1
    <3> QED
      BY <1>3, <1>4, <2>1, <3>1
  <2> QED
    BY <1>2, <2>1, <2>2 DEF NumbersAreComponents
<1>7. SizesTested'
  <2>1. ASSUME NEW c \in Cells, maskout'[c] \in 1 .. nb - 1
        PROVE  Cardinality(Component(c)) >= MinSize
    <3>1. maskout[c] = maskout'[c]
      BY <1>1, <1>3, <2>1
    <3> QED
      BY <1>2, <2>1, <3>1 DEF SizesTested
  <2>2. ASSUME NEW c \in dry, maskout'[c] = 0
        PROVE  Cardinality(Component(c)) < MinSize
    <3>1. CASE maskout[c] = 0
      BY <1>2, <3>1 DEF SizesTested
    <3>2. CASE maskout[c] # 0
      <4>1. maskout[c] = nb
        BY <1>1, <1>3, <1>4, <2>2, <3>2
      <4> QED
        BY <1>1, <1>2, <3>2, <4>1, PatchIsComponent
    <3> QED
      BY <3>1, <3>2
  <2> QED
    BY <1>1, <2>1, <2>2, ComponentUnchanged DEF SizesTested
<1>8. pc' # "done"
  BY DEF Erase
<1> QED
  BY <1>5, <1>6, <1>7, <1>8 DEF LimitInv

LEMMA KeepLimit ==
  ASSUME IInv, LimitInv, Keep
  PROVE  LimitInv'
<1>1. /\ pc = "limit" /\ nb <= ntot /\ Cardinality(PatchCells(nb)) >= MinSize
      /\ dry' = dry /\ nb' = nb + 1 /\ ntot' = ntot /\ maskout' = maskout
      /\ ntot \in Nat /\ nb \in Nat /\ maskout \in [Cells -> Nat] /\ dry \subseteq Cells
  BY DEF Keep, floodVars, IInv, TypeInv, TypeOK
<1>2. NumbersDense /\ NumbersAreComponents /\ SizesTested
  BY <1>1 DEF LimitInv, Limiting
<1>3. NumbersDense' /\ NumbersAreComponents'
  BY <1>1, <1>2, ComponentUnchanged DEF NumbersDense, NumbersAreComponents
<1>4. ASSUME NEW c \in Cells, maskout[c] \in 1 .. nb
      PROVE  Cardinality(Component(c)) >= MinSize
  <2>1. CASE maskout[c] = nb
    BY <1>1, <1>2, <1>4, <2>1, PatchIsComponent
  <2>2. CASE maskout[c] # nb
    <3>1. maskout[c] \in 1 .. nb - 1
      BY <1>1, <1>4, <2>2
    <3> QED
      BY <1>2, <3>1 DEF SizesTested
  <2> QED
    BY <2>1, <2>2
<1>5. nb' - 1 = nb
  BY <1>1
<1>6. SizesTested'
  BY <1>1, <1>2, <1>4, <1>5, ComponentUnchanged DEF SizesTested
<1>7. pc' # "done"
  BY DEF Keep
<1> QED
  BY <1>3, <1>6, <1>7 DEF LimitInv

LEMMA LimitFrame ==
  ASSUME LimitInv, UNCHANGED <<dry, maskout, ntot, nb>>, Limiting' => Limiting,
         pc' = "done" => nb > ntot
  PROVE  LimitInv'
BY ComponentUnchanged DEF LimitInv, NumbersDense, NumbersAreComponents, SizesTested

LEMMA LimitStep ==
  ASSUME IInv, StampsUsed, StampsAreComponents, LimitInv, [Next]_vars
  PROVE  LimitInv'
<1>1. CASE LimitDone \/ UNCHANGED vars
  BY <1>1, LimitFrame DEF LimitDone, vars, maskVars, Limiting, LimitInv
<1>2. CASE Found \/ Pass \/ ScanDone \/ Pop \/ Mark \/ LeaveAlone \/ Loop
  BY <1>2 DEF Found, Pass, ScanDone, Pop, Mark, LeaveAlone, Loop, LimitInv, Limiting
<1> QED
  BY <1>1, <1>2, CorrectLimit, EraseLimit, KeepLimit DEF Next

\* When the step is done its mask shows exactly the connected sets that are
\* large enough, numbered without a gap, on every grid, for every mask and
\* every least size.
THEOREM PatchesCorrect == Spec => []PatchesAreComponents
<1>1. Init => PatchInv
  BY InitIInv DEF Init, StampsUsed, LimitInv, Limiting, Clustering, PatchInv
<1>2. PatchInv /\ [Next]_vars => PatchInv'
  BY NextIInv, StampsStep, StampsHold, LimitStep DEF PatchInv
<1>3. ASSUME PatchInv PROVE PatchesAreComponents
  <2> SUFFICES ASSUME pc = "done" PROVE PatchesAreComponents
    BY DEF PatchesAreComponents
  <2>1. /\ NumbersDense /\ NumbersAreComponents /\ SizesTested /\ nb > ntot
        /\ maskout \in [Cells -> Nat] /\ ntot \in Nat /\ nb \in Nat
        /\ dry \subseteq Cells /\ MinSize \in Nat
    BY <1>3, GridAssumption DEF PatchInv, LimitInv, Limiting, IInv, TypeInv, TypeOK
  <2>2. nb - 1 = ntot
    BY <2>1 DEF NumbersDense
  <2>3. {maskout[c] : c \in Cells} \ {0} = 1 .. ntot
    <3>1. \A c \in Cells : maskout[c] \in 0 .. ntot
      BY <2>1 DEF NumbersDense
    <3>2. \A k \in 1 .. ntot : k # 0 /\ \E c \in Cells : maskout[c] = k
      BY <2>1 DEF NumbersDense
    <3>3. \A k \in 0 .. ntot : k # 0 => k \in 1 .. ntot
      BY <2>1
    <3> QED
      BY <3>1, <3>2, <3>3
  <2>4. ASSUME NEW c \in Cells
        PROVE  maskout[c] # 0 <=> c \in dry /\ Cardinality(Component(c)) >= MinSize
    <3>1. Cardinality(Component(c)) \in Nat
      <4>1. Component(c) \subseteq Cells
        BY <2>1 DEF Component
      <4> QED
        BY <4>1, CellsFinite, FS_Subset, FS_CardinalityType
    <3>2. CASE maskout[c] # 0
      <4>1. maskout[c] \in 1 .. nb - 1
        BY <2>1, <2>2, <3>2 DEF NumbersDense
      <4> QED
        BY <2>1, <3>2, <4>1 DEF SizesTested, NumbersAreComponents
    <3>3. CASE maskout[c] = 0
      BY <2>1, <3>1, <3>3 DEF SizesTested
    <3> QED
      BY <3>2, <3>3
  <2>5. \A a \in Cells : maskout[a] # 0 => PatchCells(maskout[a]) = Component(a)
    BY <2>1, PatchIsComponent
  <2> QED
    BY <2>3, <2>4, <2>5 DEF PatchesAreComponents
<1> QED
  BY <1>1, <1>2, <1>3, PTL DEF Spec

-----------------------------------------------------------------------------
(* The step comes to its end: how much of it is left                         *)

Unstamped == {c \in dry : tmpar[c] = 1}
Ahead     == {c \in Cells : ~Before(c, at)}

\* A cell without a stamp costs a stamp, a place on the stack, its removal and
\* nine turns of the loop over its neighbours.
Left == 13 * Cardinality(Unstamped) + 11 * Len(stack) + Cardinality(Ahead) + ntot + 3

Work ==
  CASE pc \in {"scan", "pop"} -> Left
    [] pc = "push" -> Left + 10 - dir
    [] pc = "correct" -> ntot + 2
    [] pc = "limit" -> (IF nb <= ntot THEN ntot - nb + 1 ELSE 0) + 1
    [] pc \in {"done", "stopped"} -> 0

LEMMA WorkParts ==
  ASSUME TypeInv
  PROVE  /\ IsFiniteSet(Unstamped) /\ Cardinality(Unstamped) \in 0 .. NX * NY
         /\ IsFiniteSet(Ahead) /\ Cardinality(Ahead) \in 0 .. NX * NY
         /\ Len(stack) \in Nat /\ ntot \in Nat /\ nb \in Nat /\ dir \in 1 .. 9
         /\ Left \in Nat /\ Left >= ntot + 3
<1>1. NX * NY \in Nat
  BY GridAssumption
<1>2. Unstamped \subseteq Cells /\ Ahead \subseteq Cells
  BY DEF Unstamped, Ahead, TypeInv, TypeOK
<1>3. /\ IsFiniteSet(Unstamped) /\ Cardinality(Unstamped) \in 0 .. NX * NY
      /\ IsFiniteSet(Ahead) /\ Cardinality(Ahead) \in 0 .. NX * NY
  BY <1>1, <1>2, CellsFinite, FS_Subset, FS_CardinalityType
<1>4. Len(stack) \in Nat /\ ntot \in Nat /\ nb \in Nat /\ dir \in 1 .. 9
  BY DEF TypeInv, TypeOK
<1>5. Cardinality(Unstamped) \in Nat /\ Cardinality(Ahead) \in Nat
  BY <1>3
<1>6. Left \in Nat /\ Left >= ntot + 3
  BY <1>4, <1>5 DEF Left
<1> QED  BY <1>3, <1>4, <1>6

LEMMA WorkIsNat == TypeInv => Work \in Nat
<1> SUFFICES ASSUME TypeInv PROVE Work \in Nat
  OBVIOUS
<1>1. pc \in {"scan", "pop", "push", "correct", "limit", "done", "stopped"}
  BY DEF TypeInv, TypeOK
<1>2. Left \in Nat /\ ntot \in Nat /\ nb \in Nat /\ dir \in 1 .. 9
  BY WorkParts
<1> QED  BY <1>1, <1>2 DEF Work

\* A cell that gets its stamp is no longer among those without.
LEMMA OneStamped ==
  ASSUME TypeInv, NEW d \in Cells, tmpar[d] = 1, tmpar' = [tmpar EXCEPT ![d] = ntot'],
         ntot' \in Nat, ntot' > 1, dry' = dry
  PROVE  Cardinality(Unstamped)' = Cardinality(Unstamped) - 1
<1>1. d \in Unstamped
  BY DEF Unstamped, TypeInv, Control
<1>2. Unstamped' = Unstamped \ {d}
  BY DEF Unstamped, TypeInv, TypeOK
<1> QED  BY <1>1, <1>2, WorkParts, FS_RemoveElement

\* The scan leaves one cell behind.
LEMMA OneScanned ==
  ASSUME TypeInv, at \in Cells, at' = After(at)
  PROVE  Cardinality(Ahead)' = Cardinality(Ahead) - 1
<1>1. at \in Ahead
  BY GridAssumption DEF Ahead, Before, Cells
<1>2. ASSUME NEW c \in Cells PROVE Before(c, After(at)) <=> c = at \/ Before(c, at)
  <2>1. c = at \/ Before(c, at) => Before(c, After(at))
    BY GridAssumption DEF Before, After, Cells
  <2> QED  BY <2>1, ScanOrder
<1>3. Ahead' = Ahead \ {at}
  BY <1>2 DEF Ahead
<1> QED  BY <1>1, <1>3, WorkParts, FS_RemoveElement

\* Every step, whatever it is, leaves less work.
LEMMA WorkStep ==
  ASSUME IInv, Next
  PROVE  Work' < Work
<1> DEFINE U == Cardinality(Unstamped)  A == Cardinality(Ahead)  L == Len(stack)
<1>0. TypeInv /\ StackInv
  BY DEF IInv
<1>1. /\ U \in Nat /\ A \in Nat /\ L \in Nat /\ ntot \in Nat /\ nb \in Nat /\ dir \in 1 .. 9
      /\ Left \in Nat /\ Left >= ntot + 3
  BY <1>0, WorkParts
<1>2. dry' = dry /\ tmpar' = tmpar => U' = U
  BY DEF Unstamped
<1>3. at' = at => A' = A
  BY DEF Ahead
<1>4. stack \in Seq(Cells) /\ (Clustering => ntot >= 1)
  BY <1>0 DEF TypeInv, TypeOK, Control
<1>5. ASSUME NEW d \in Cells, tmpar[d] = 1, tmpar' = [tmpar EXCEPT ![d] = ntot'],
             ntot' \in Nat, ntot' > 1, dry' = dry
      PROVE  U' = U - 1
  BY <1>0, <1>5, OneStamped
<1>6. /\ Left = 13 * U + 11 * L + A + ntot + 3
      /\ Left' = 13 * U' + 11 * L' + A' + ntot' + 3
  BY DEF Left
<1> HIDE DEF U, A
<1>7. CASE Found
  <2>1. /\ pc = "scan" /\ pc' = "pop" /\ ntot' = ntot + 1 /\ stack' = <<at>> /\ A' = A
        /\ at \in Cells /\ dry' = dry /\ tmpar[at] = 1 /\ tmpar' = [tmpar EXCEPT ![at] = ntot']
    BY <1>3, <1>7 DEF Found
  <2>2. ntot' \in Nat /\ ntot' > 1
    BY <1>1, <1>4, <2>1 DEF Clustering
  <2>3. U' = U - 1
    BY <1>5, <2>1, <2>2
  <2>4. L' = 1 /\ L = 0
    BY <1>0, <2>1 DEF TypeInv, Control
  <2> HIDE DEF L
  <2>5. Left' = Left - 1
    BY <1>1, <1>6, <2>1, <2>3, <2>4
  <2> QED  BY <1>1, <2>1, <2>5 DEF Work
<1>8. CASE Pass
  <2>1. /\ pc = "scan" /\ pc' = "scan" /\ ntot' = ntot /\ L' = L /\ U' = U
    BY <1>2, <1>8 DEF Pass, floodVars
  <2>2. A' = A - 1
    BY <1>0, <1>8, OneScanned DEF Pass, A
  <2> HIDE DEF L
  <2>3. Left' = Left - 1
    BY <1>1, <1>6, <2>1, <2>2
  <2> QED  BY <1>1, <2>1, <2>3 DEF Work
<1>9. CASE ScanDone
  <2>1. pc = "scan" /\ pc' = "correct" /\ ntot' = ntot
    BY <1>9 DEF ScanDone
  <2> QED  BY <1>1, <2>1 DEF Work
<1>10. CASE Correct
  <2>1. pc = "correct" /\ pc' = "limit" /\ ntot' = ntot - 1 /\ nb' = 1
    BY <1>10 DEF Correct
  <2> QED  BY <1>1, <2>1 DEF Work
<1>11. CASE Pop
  <2>1. /\ pc = "pop" /\ pc' \in {"push", "stopped"} /\ ntot' = ntot /\ dir' = 1
        /\ stack' = SubSeq(stack, 1, Len(stack) - 1) /\ stack # <<>> /\ dry' = dry /\ A' = A
    BY <1>0, <1>3, <1>11 DEF Pop, TypeInv, Control
  <2>2. L >= 1 /\ L \in DOMAIN stack
    BY <1>4, <2>1
  <2>3. L' = L - 1
    <3>1. \A q \in Seq(Cells) : q # <<>> => Len(SubSeq(q, 1, Len(q) - 1)) = Len(q) - 1
      <4> SUFFICES ASSUME NEW q \in Seq(Cells), q # <<>>
                   PROVE  Len(SubSeq(q, 1, Len(q) - 1)) = Len(q) - 1
        OBVIOUS
      <4>1. Len(q) \in Nat /\ Len(q) >= 1
        OBVIOUS
      <4>2. PICK n \in Nat : n = Len(q) - 1
        BY <4>1
      <4>3. Len(SubSeq(q, 1, n)) = n
        BY <4>1, <4>2
      <4> QED  BY <4>2, <4>3
    <3> QED  BY <1>4, <2>1, <3>1
  <2>4. tmpar' = tmpar
    <3>1. tmpar[stack[L]] = ntot /\ tmpar' = [tmpar EXCEPT ![stack[L]] = ntot]
      BY <1>0, <1>11, <2>2 DEF StackInv, Pop
    <3> QED  BY <1>0, <3>1 DEF TypeInv, TypeOK
  <2>5. U' = U
    BY <1>2, <2>1, <2>4
  <2> HIDE DEF L
  <2>6. Left' = Left - 11
    BY <1>1, <1>6, <2>1, <2>3, <2>5
  <2> QED  BY <1>1, <2>1, <2>6 DEF Work
<1>12. CASE Mark
  <2>1. /\ pc = "push" /\ pc' = "push" /\ ntot' = ntot /\ dir' = dir + 1 /\ dir <= 8
        /\ Neighbour(cur, dir) \in Cells /\ tmpar[Neighbour(cur, dir)] = 1
        /\ stack' = Append(stack, Neighbour(cur, dir)) /\ dry' = dry /\ A' = A
        /\ tmpar' = [tmpar EXCEPT ![Neighbour(cur, dir)] = ntot']
    BY <1>0, <1>3, <1>12, NeighbourIsCell DEF Mark, TypeInv, TypeOK
  <2>2. ntot' > 1 /\ ntot' \in Nat
    BY <1>1, <2>1 DEF IInv, StampInv, Flooding
  <2>3. U' = U - 1
    BY <1>5, <2>1, <2>2
  <2>4. L' = L + 1
    BY <1>4, <2>1
  <2> HIDE DEF L
  <2>5. Left' = Left - 2 /\ pc = "push" /\ pc' = "push" /\ dir' = dir + 1
    BY <1>1, <1>6, <2>1, <2>3, <2>4
  <2> QED  BY <1>1, <2>5 DEF Work
<1>13. CASE LeaveAlone
  <2>1. /\ pc = "push" /\ pc' = "push" /\ ntot' = ntot /\ dir' = dir + 1 /\ dir <= 8
        /\ L' = L /\ U' = U /\ A' = A
    BY <1>2, <1>3, <1>13 DEF LeaveAlone
  <2> HIDE DEF L
  <2>2. Left' = Left
    BY <1>1, <1>6, <2>1
  <2> QED  BY <1>1, <2>1, <2>2 DEF Work
<1>14. CASE Loop
  <2>1. /\ pc = "push" /\ dir = 9 /\ ntot' = ntot /\ L' = L /\ U' = U
    BY <1>2, <1>14 DEF Loop, floodVars
  <2>2. pc' \in {"pop", "scan"} /\ A' \in {A, A - 1}
    <3>1. CASE stack # <<>>
      BY <1>3, <1>14, <3>1 DEF Loop
    <3>2. CASE stack = <<>>
      <4>1. at \in Cells /\ at' = After(at) /\ pc' = "scan"
        BY <1>0, <1>14, <2>1, <3>2 DEF Loop, TypeInv, Control, Flooding
      <4> QED  BY <1>0, <4>1, OneScanned DEF A
    <3> QED  BY <3>1, <3>2
  <2> HIDE DEF L
  <2>3. Left' \in {Left, Left - 1}
    <3>1. CASE A' = A
      BY <1>1, <1>6, <2>1, <3>1
    <3>2. CASE A' = A - 1
      BY <1>1, <1>6, <2>1, <3>2
    <3> QED  BY <2>2, <3>1, <3>2
  <2> QED  BY <1>1, <2>1, <2>2, <2>3 DEF Work
<1>15. CASE Erase \/ Keep \/ LimitDone
  <2>1. pc = "limit"
    BY <1>15 DEF Erase, Keep, LimitDone
  <2>2. CASE Erase
    BY <1>1, <2>1, <2>2 DEF Erase, Work
  <2>3. CASE Keep
    BY <1>1, <2>1, <2>3 DEF Keep, Work
  <2>4. CASE LimitDone
    BY <1>1, <2>1, <2>4 DEF LimitDone, Work
  <2> QED  BY <1>15, <2>2, <2>3, <2>4
<1> QED
  BY <1>7, <1>8, <1>9, <1>10, <1>11, <1>12, <1>13, <1>14, <1>15, Zenon DEF Next

Bounded == Work \in 0 .. 14 * (NX * NY) + 4

\* The search for the patches of one step cannot go on for ever: each turn of
\* its loops leaves less to do, and from the start there are no more of them
\* than fourteen for each cell and four, on any grid and for any mask.
THEOREM StepsRunOut == Spec => []Bounded /\ [][Work' < Work]_vars
<1>1. Init => Bounded
  <2> SUFFICES ASSUME Init PROVE Bounded
    OBVIOUS
  <2>1. TypeInv
    BY InitIInv DEF IInv
  <2>2. pc = "scan" /\ Len(stack) = 0 /\ ntot = 1
    BY DEF Init
  <2>3. Work = 13 * Cardinality(Unstamped) + Cardinality(Ahead) + 4
    BY <2>1, <2>2, WorkParts DEF Work, Left
  <2> DEFINE n == NX * NY
  <2>4. n \in Nat /\ Cardinality(Unstamped) \in 0 .. n /\ Cardinality(Ahead) \in 0 .. n
    BY <2>1, WorkParts, GridAssumption
  <2> HIDE DEF n
  <2>5. Work \in 0 .. 14 * n + 4
    BY <2>3, <2>4
  <2> QED  BY <2>5 DEF Bounded, n
<1>2. IInv /\ Bounded /\ [Next]_vars => Bounded' /\ [Work' < Work]_vars
  <2> SUFFICES ASSUME IInv, Bounded, [Next]_vars PROVE Bounded' /\ [Work' < Work]_vars
    OBVIOUS
  <2> DEFINE n == NX * NY
  <2>1. n \in Nat /\ n' = n
    BY GridAssumption
  <2>2. CASE UNCHANGED vars
    <3>1. Work' = Work
      BY <2>2 DEF vars, floodVars, maskVars, Work, Left, Unstamped, Ahead
    <3> QED  BY <2>2, <3>1 DEF Bounded
  <2>3. CASE Next
    <3>1. Work' \in Nat /\ Work \in Nat
      <4>1. IInv'
        BY NextIInv
      <4>2. TypeInv /\ TypeInv'
        BY <4>1 DEF IInv
      <4>3. (TypeInv => Work \in Nat)'
        BY WorkIsNat, PTL
      <4> QED  BY <4>2, <4>3, WorkIsNat
    <3>2. Work' < Work
      BY <2>3, WorkStep
    <3> HIDE DEF n
    <3>3. Work \in 0 .. 14 * n + 4
      BY DEF Bounded, n
    <3> QED  BY <2>1, <3>1, <3>2, <3>3 DEF Bounded, n
  <2> QED  BY <2>2, <2>3
<1>3. Init => IInv
  BY InitIInv
<1>4. IInv /\ [Next]_vars => IInv'
  BY NextIInv
<1> QED  BY <1>1, <1>2, <1>3, <1>4, PTL DEF Spec
=============================================================================
