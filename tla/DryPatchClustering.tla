------------------------- MODULE DryPatchClustering -------------------------
(***************************************************************************)
(* The dry patches of one output step of the atmosphere model, as           *)
(* getdrypatches.f90 finds them: clustering.f90 stamps every connected set  *)
(* of dry cells with a number of its own (clustering, connected), then the  *)
(* patches that are too small are dropped and the others renumbered.        *)
(*                                                                         *)
(* The code wraps in both directions: the tests that read the topology from *)
(* the coordinates are commented out in the source, and its comment speaks  *)
(* of x only.  While clustering runs, 1 is a dry cell without a stamp, and  *)
(* stamps start at 2.                                                       *)
(***************************************************************************)
EXTENDS Integers, Sequences, FiniteSets

CONSTANTS
  NX, NY,    \* the size of the grid
  MinSize,   \* the least number of cells of a patch that is kept (10)
  Masks      \* the sets of dry cells considered

Cells == (1 .. NX) \X (1 .. NY)

ASSUME GridAssumption ==
  /\ NX \in Nat \ {0} /\ NY \in Nat \ {0}
  /\ MinSize \in Nat
  /\ Masks \subseteq SUBSET Cells

VARIABLES
  dry,      \* maskin, the cells below the critical precipitable water
  tmpar,    \* the stamp of each cell while clustering runs
  ntot,     \* the last stamp given; after clustering, the number of patches
  at,       \* the cell the scan of clustering is at
  pc,
  stack,    \* indx, indy: stamped cells whose neighbours are to be looked at
  cur,      \* im, jm
  dir,      \* the neighbour of cur looked at next
  maskout,  \* the mask of this step
  nb        \* the patch whose size is tested

floodVars == <<stack, cur, dir>>
maskVars  == <<maskout, nb>>
vars == <<dry, tmpar, ntot, at, pc, floodVars, maskVars>>

\* The neighbouring column or row, across the border.
Down(i, n) == IF i = 1 THEN n ELSE i - 1
Up(i, n)   == IF i = n THEN 1 ELSE i + 1

\* Mutation of Neighbour: the last corner is a copy of the one before.
BugNeighbour(c, k) ==
  LET il == Down(c[1], NX)  ir == Up(c[1], NX)
      jd == Down(c[2], NY)  ju == Up(c[2], NY)
  IN  CASE k = 1 -> <<il, c[2]>>
        [] k = 2 -> <<ir, c[2]>>
        [] k = 3 -> <<c[1], ju>>
        [] k = 4 -> <<c[1], jd>>
        [] k = 5 -> <<il, jd>>
        [] k = 6 -> <<il, ju>>
        [] k \in {7, 8} -> <<ir, jd>>

\* The eight neighbours of a cell, in the order they are looked at.
Neighbour(c, k) ==
  LET il == Down(c[1], NX)  ir == Up(c[1], NX)
      jd == Down(c[2], NY)  ju == Up(c[2], NY)
  IN  CASE k = 1 -> <<il, c[2]>>
        [] k = 2 -> <<ir, c[2]>>
        [] k = 3 -> <<c[1], ju>>
        [] k = 4 -> <<c[1], jd>>
        [] k = 5 -> <<il, jd>>
        [] k = 6 -> <<il, ju>>
        [] k = 7 -> <<ir, jd>>
        [] k = 8 -> <<ir, ju>>

\* The scan goes up each column in turn.
After(c) == IF c[2] < NY THEN <<c[1], c[2] + 1>> ELSE <<c[1] + 1, 1>>

TypeOK ==
  /\ dry \subseteq Cells
  /\ tmpar \in [Cells -> Nat]
  /\ ntot \in Nat
  /\ at \in (1 .. NX + 1) \X (1 .. NY)
  /\ pc \in {"scan", "pop", "push", "correct", "limit", "done", "stopped"}
  /\ stack \in Seq(Cells) /\ cur \in Cells /\ dir \in 1 .. 9
  /\ maskout \in [Cells -> Nat] /\ nb \in Nat

Init ==
  /\ dry \in Masks
  /\ tmpar = [c \in Cells |-> IF c \in dry THEN 1 ELSE 0]
  /\ ntot = 1
  /\ at = <<1, 1>> /\ pc = "scan"
  /\ stack = <<>> /\ cur = <<1, 1>> /\ dir = 1
  /\ maskout = [c \in Cells |-> 0] /\ nb = 1

-----------------------------------------------------------------------------
(* subroutine clustering                                                   *)

\* A dry cell without a stamp starts a patch.
Found ==
  /\ pc = "scan" /\ at \in Cells /\ tmpar[at] = 1
  /\ ntot' = ntot + 1
  /\ tmpar' = [tmpar EXCEPT ![at] = ntot + 1]
  /\ stack' = <<at>>
  /\ pc' = "pop"
  /\ UNCHANGED <<dry, at, cur, dir, maskVars>>

Pass ==
  /\ pc = "scan" /\ at \in Cells /\ tmpar[at] # 1
  /\ at' = After(at)
  /\ UNCHANGED <<dry, tmpar, ntot, pc, floodVars, maskVars>>

ScanDone ==
  /\ pc = "scan" /\ at \notin Cells
  /\ pc' = "correct"
  /\ UNCHANGED <<dry, tmpar, ntot, at, floodVars, maskVars>>

\* The stamps were one too large.
Correct ==
  /\ pc = "correct"
  /\ maskout' = [c \in Cells |-> IF c \in dry THEN tmpar[c] - 1 ELSE 0]
  /\ ntot' = ntot - 1
  /\ nb' = 1 /\ pc' = "limit"
  /\ UNCHANGED <<dry, tmpar, at, floodVars>>

-----------------------------------------------------------------------------
(* subroutine connected                                                    *)

\* The last cell of the stack is taken; a stack that is nearly full stops the
\* program.
Pop ==
  /\ pc = "pop"
  /\ cur' = stack[Len(stack)]
  /\ stack' = SubSeq(stack, 1, Len(stack) - 1)
  /\ tmpar' = [tmpar EXCEPT ![stack[Len(stack)]] = ntot]
  /\ dir' = 1
  /\ pc' = IF Len(stack) - 1 > NX * NY - NX THEN "stopped" ELSE "push"
  /\ UNCHANGED <<dry, ntot, at, maskVars>>

\* Mutation of Mark: the neighbour gets its stamp only when it is taken.
BugMarkLate ==
  /\ pc = "push" /\ dir <= 8 /\ tmpar[Neighbour(cur, dir)] = 1
  /\ stack' = Append(stack, Neighbour(cur, dir))
  /\ dir' = dir + 1
  /\ UNCHANGED <<dry, tmpar, ntot, at, pc, cur, maskVars>>

\* A dry neighbour without a stamp gets the stamp and is put on the stack.
Mark ==
  /\ pc = "push" /\ dir <= 8 /\ tmpar[Neighbour(cur, dir)] = 1
  /\ tmpar' = [tmpar EXCEPT ![Neighbour(cur, dir)] = ntot]
  /\ stack' = Append(stack, Neighbour(cur, dir))
  /\ dir' = dir + 1
  /\ UNCHANGED <<dry, ntot, at, pc, cur, maskVars>>

LeaveAlone ==
  /\ pc = "push" /\ dir <= 8 /\ tmpar[Neighbour(cur, dir)] # 1
  /\ dir' = dir + 1
  /\ UNCHANGED <<dry, tmpar, ntot, at, pc, stack, cur, maskVars>>

\* goto 100, or back to the scan.
Loop ==
  /\ pc = "push" /\ dir = 9
  /\ IF stack # <<>> THEN pc' = "pop" /\ UNCHANGED at
     ELSE pc' = "scan" /\ at' = After(at)
  /\ UNCHANGED <<dry, tmpar, ntot, floodVars, maskVars>>

-----------------------------------------------------------------------------
(* program getdrypatches: the size limit                                   *)

PatchCells(k) == {c \in Cells : maskout[c] = k}

\* Mutation of Erase: the patch that moved down is not tested.
BugSkipsNext ==
  /\ pc = "limit" /\ nb <= ntot /\ Cardinality(PatchCells(nb)) < MinSize
  /\ maskout' = [c \in Cells |-> CASE maskout[c] < nb -> maskout[c]
                                   [] maskout[c] = nb -> 0
                                   [] OTHER           -> maskout[c] - 1]
  /\ ntot' = ntot - 1 /\ nb' = nb + 1
  /\ UNCHANGED <<dry, tmpar, at, pc, floodVars>>

\* Mutation of Erase: the number of patches stays.
BugKeepsTotal ==
  /\ pc = "limit" /\ nb <= ntot /\ Cardinality(PatchCells(nb)) < MinSize
  /\ maskout' = [c \in Cells |-> CASE maskout[c] < nb -> maskout[c]
                                   [] maskout[c] = nb -> 0
                                   [] OTHER           -> maskout[c] - 1]
  /\ UNCHANGED <<dry, tmpar, ntot, at, pc, floodVars, nb>>

\* A small patch is erased and every later number moves down by one.
Erase ==
  /\ pc = "limit" /\ nb <= ntot /\ Cardinality(PatchCells(nb)) < MinSize
  /\ maskout' = [c \in Cells |-> CASE maskout[c] < nb -> maskout[c]
                                   [] maskout[c] = nb -> 0
                                   [] OTHER           -> maskout[c] - 1]
  /\ ntot' = ntot - 1
  /\ UNCHANGED <<dry, tmpar, at, pc, floodVars, nb>>

Keep ==
  /\ pc = "limit" /\ nb <= ntot /\ Cardinality(PatchCells(nb)) >= MinSize
  /\ nb' = nb + 1
  /\ UNCHANGED <<dry, tmpar, ntot, at, pc, floodVars, maskout>>

LimitDone ==
  /\ pc = "limit" /\ nb > ntot
  /\ pc' = "done"
  /\ UNCHANGED <<dry, tmpar, ntot, at, floodVars, maskVars>>

Next ==
  \/ Found \/ Pass \/ ScanDone \/ Correct
  \/ Pop \/ Mark \/ LeaveAlone \/ Loop
  \/ Erase \/ Keep \/ LimitDone

\* A sequential program that runs.
Spec == Init /\ [][Next]_vars /\ WF_vars(Next)

-----------------------------------------------------------------------------
(* The reference: connected sets of dry cells                              *)

\* On a ring of n places.
Near(i, k, n) == i = k \/ i = Up(k, n) \/ k = Up(i, n)

\* Different cells that touch by a side or a corner.
Adjacent(a, b) == a # b /\ Near(a[1], b[1], NX) /\ Near(a[2], b[2], NY)

ClosedSet(S) == \A a \in S, b \in dry : Adjacent(a, b) => b \in S

\* Dry cells b that belong to every closed set with a.
Connected(a, b) == \A S \in SUBSET dry : a \in S /\ ClosedSet(S) => b \in S

Component(c) == {b \in dry : Connected(c, b)}

\* The grid the comment describes (13-14) is periodic in x only: there the last
\* row does not touch the first, and an event is what is connected in it.
Inside(a, b) == Adjacent(a, b) /\ a[2] - b[2] \in {-1, 0, 1}

Event(a) ==
  {b \in dry : \A S \in SUBSET dry :
     a \in S /\ (\A c \in S, d \in dry : Inside(c, d) => d \in S) => b \in S}

-----------------------------------------------------------------------------
(* Properties                                                              *)

\* The stack arrays have one place for each cell: no cell is on the stack
\* twice, so they are never overrun, with or without the test before the pushes.
StackFits ==
  /\ \A k, m \in DOMAIN stack : stack[k] = stack[m] => k = m
  /\ Len(stack) <= NX * NY

\* What the stamps are once the scan is over, against the comment, by which
\* every event of a grid periodic in x gets a stamp of its own. The cells of an
\* event do share a stamp. Two events share one only where the code wraps in y as
\* well: an event with a stamp it shares touches a dry cell of another event over
\* the y border, and all that is joined by such contacts has one stamp.
StampsAreEvents ==
  pc = "correct" =>
    \A a \in dry :
      LET event  == Event(a)
          across == {d \in dry : Adjacent(a, d) /\ ~Inside(a, d)}
      IN  /\ \A b \in event : tmpar[b] = tmpar[a]
          /\ \A b \in across : tmpar[b] = tmpar[a]
          /\ \A b \in dry \ event : tmpar[b] = tmpar[a] =>
               \E c \in event, d \in dry \ event : Adjacent(c, d) /\ ~Inside(c, d)
          /\ {b \in dry : tmpar[b] = tmpar[a]} = Component(a)

\* The mask shows exactly the connected sets of MinSize cells or more, and
\* numbers them 1 .. ntot without a gap.
PatchesAreComponents ==
  pc = "done" =>
    /\ {maskout[c] : c \in Cells} \ {0} = 1 .. ntot
    /\ \A c \in Cells :
         maskout[c] # 0 <=> c \in dry /\ Cardinality(Component(c)) >= MinSize
    /\ \A a \in Cells : maskout[a] # 0 => PatchCells(maskout[a]) = Component(a)

\* The program gets through the step or stops with its message.
Ends == <>(pc \in {"done", "stopped"})
=============================================================================
