-------------------------- MODULE DryPatchTracking --------------------------
(***************************************************************************)
(* The numbers that getdrypatches.f90 gives to dry patches over all output  *)
(* steps.  Each step adds the patches that clustering and the size limit    *)
(* leave (module DryPatchClustering) with fresh numbers, lets each take the *)
(* number of a patch of the step before, merges patches that are close, and *)
(* closes the gaps this leaves in the numbers of all steps.                 *)
(*                                                                         *)
(* A mask is reduced to the numbers of its patches.  Where patches lie, and *)
(* with it the tests of distance, overlap and size, is left open; ages,     *)
(* which the program counts from the numbers, are not.                      *)
(***************************************************************************)
EXTENDS Integers, FiniteSets

CONSTANTS
  NT,   \* output steps
  Max   \* patches of one step at most

ASSUME ConstantsAssumption == NT \in Nat /\ Max \in Nat

VARIABLES
  maskout,  \* the number of each patch of each step, 0 where there is none
  ndry,     \* the numbers given so far
  it,       \* the output step
  phase,    \* the loop the program is in
  nb, l,    \* the patch the loop is at, and the one it is compared with
  age       \* age of patch nb when its comparisons began

vars == <<maskout, ndry, it, phase, nb, l, age>>

Steps   == 1 .. NT
Patches == 1 .. Max

TypeOK ==
  /\ maskout \in [Steps -> [Patches -> Nat]]
  /\ ndry \in Nat /\ it \in 1 .. NT + 1
  /\ phase \in {"cluster", "match", "seek", "merge"}
  /\ nb \in 1 .. ndry + 1 /\ l \in 1 .. ndry + 1
  /\ age \in Nat

Init ==
  /\ maskout = [t \in Steps |-> [p \in Patches |-> 0]]
  /\ ndry = 0 /\ it = 1 /\ phase = "cluster"
  /\ nb = 1 /\ l = 1 /\ age = 0

\* The numbers in a mask, and those in the masks of a set of steps.
Ids(m, t) == {m[t][p] : p \in Patches} \ {0}
AllIds(m, T) == UNION {Ids(m, t) : t \in T}

Age(n) == Cardinality({t \in 1 .. it - 1 : n \in Ids(maskout, t)})

\* Where the mask of a step has number n it gets number m.
Relabel(mask, n, m) == [p \in Patches |-> IF mask[p] = n THEN m ELSE mask[p]]

\* The numbers above n go down by one.
CloseGap(mask, n) == [p \in Patches |-> IF mask[p] > n THEN mask[p] - 1 ELSE mask[p]]

-----------------------------------------------------------------------------

\* The n patches of the next step get numbers that nobody had; they are
\* matched if the step before has any patch.
Increase(n) ==
  /\ phase = "cluster" /\ it <= NT
  /\ maskout' = [maskout EXCEPT ![it] = [p \in Patches |-> IF p <= n THEN ndry + p ELSE 0]]
  /\ ndry' = ndry + n
  /\ IF it > 1 /\ Ids(maskout, it - 1) # {}
     THEN phase' = "match" /\ nb' = ndry + 1
     ELSE phase' = "seek" /\ nb' = 1
  /\ l' = 1
  /\ UNCHANGED <<it, age>>

\* No patch of the step before is near patch nb.
StaysNew ==
  /\ phase = "match" /\ nb <= ndry
  /\ nb' = nb + 1
  /\ UNCHANGED <<maskout, ndry, it, phase, l, age>>

\* Mutation of TakesNumber: the numbers above nb stay.
BugLeavesGap(idold) ==
  /\ phase = "match" /\ nb <= ndry
  /\ idold \in Ids(maskout, it - 1)
  /\ maskout' = [maskout EXCEPT ![it] = Relabel(@, nb, idold)]
  /\ ndry' = ndry - 1
  /\ UNCHANGED <<it, phase, nb, l, age>>

\* Mutation of TakesNumber: any earlier step will do.
BugAnyEarlier(idold) ==
  /\ phase = "match" /\ nb <= ndry
  /\ idold \in AllIds(maskout, 1 .. it - 1)
  /\ maskout' = [t \in Steps |-> IF t < it THEN maskout[t]
                                 ELSE IF t = it THEN CloseGap(Relabel(maskout[t], nb, idold), nb)
                                 ELSE CloseGap(maskout[t], nb)]
  /\ ndry' = ndry - 1
  /\ UNCHANGED <<it, phase, nb, l, age>>

\* Patch nb takes the number of the nearest patch of the step before.
TakesNumber(idold) ==
  /\ phase = "match" /\ nb <= ndry
  /\ idold \in Ids(maskout, it - 1)
  /\ maskout' = [t \in Steps |-> IF t < it THEN maskout[t]
                                 ELSE IF t = it THEN CloseGap(Relabel(maskout[t], nb, idold), nb)
                                 ELSE CloseGap(maskout[t], nb)]
  /\ ndry' = ndry - 1
  /\ UNCHANGED <<it, phase, nb, l, age>>

MatchDone ==
  /\ phase = "match" /\ nb > ndry
  /\ phase' = "seek" /\ nb' = 1
  /\ UNCHANGED <<maskout, ndry, it, l, age>>

-----------------------------------------------------------------------------

\* The comparisons of patch nb begin, if the step has it.
Seek ==
  /\ phase = "seek" /\ nb <= ndry
  /\ nb \in Ids(maskout, it)
  /\ phase' = "merge" /\ l' = 1 /\ age' = Age(nb)
  /\ UNCHANGED <<maskout, ndry, it, nb>>

\* Mutation of SkipMissing: nb is increased only for a patch that is there.
BugStaysAtMissing ==
  /\ phase = "seek" /\ nb <= ndry
  /\ nb \notin Ids(maskout, it)
  /\ UNCHANGED vars

SkipMissing ==
  /\ phase = "seek" /\ nb <= ndry
  /\ nb \notin Ids(maskout, it)
  /\ nb' = nb + 1
  /\ UNCHANGED <<maskout, ndry, it, phase, l, age>>

\* Patch l is nb itself, or not there, or older or bigger, or too far away.
PassOver ==
  /\ phase = "merge" /\ l <= ndry
  /\ l' = l + 1
  /\ UNCHANGED <<maskout, ndry, it, phase, nb, age>>

\* Mutation of Merge: only this step is searched for other patches l.
BugForgetsHistory ==
  /\ phase = "merge" /\ l <= ndry
  /\ l # nb /\ l \in Ids(maskout, it) /\ Age(l) <= age
  /\ maskout' = [t \in Steps |-> CloseGap(IF t = it THEN Relabel(maskout[t], l, nb)
                                          ELSE maskout[t], l)]
  /\ ndry' = ndry - 1 /\ nb' = IF nb > l THEN nb - 1 ELSE nb
  /\ UNCHANGED <<it, phase, l, age>>

\* Mutation of Merge: nb is not adjusted to the numbers it shifted.
BugKeepsNb ==
  /\ phase = "merge" /\ l <= ndry
  /\ l # nb /\ l \in Ids(maskout, it) /\ Age(l) <= age
  /\ LET merged == [maskout EXCEPT ![it] = Relabel(@, l, nb)]
     IN  IF l \in AllIds(merged, 1 .. it)
         THEN maskout' = merged /\ UNCHANGED ndry
         ELSE /\ maskout' = [t \in Steps |-> CloseGap(merged[t], l)]
              /\ ndry' = ndry - 1
  /\ UNCHANGED <<it, phase, nb, l, age>>

\* A younger patch l, or a smaller one of the same age, is close: it takes the
\* number of nb, and its own is given up unless an earlier step has it.
Merge ==
  /\ phase = "merge" /\ l <= ndry
  /\ l # nb /\ l \in Ids(maskout, it) /\ Age(l) <= age
  /\ LET merged == [maskout EXCEPT ![it] = Relabel(@, l, nb)]
     IN  IF l \in AllIds(merged, 1 .. it)
         THEN maskout' = merged /\ UNCHANGED <<ndry, nb>>
         ELSE /\ maskout' = [t \in Steps |-> CloseGap(merged[t], l)]
              /\ ndry' = ndry - 1
              /\ nb' = IF nb > l THEN nb - 1 ELSE nb
  /\ UNCHANGED <<it, phase, l, age>>

Compared ==
  /\ phase = "merge" /\ l > ndry
  /\ phase' = "seek" /\ nb' = nb + 1 /\ l' = 1
  /\ UNCHANGED <<maskout, ndry, it, age>>

StepDone ==
  /\ phase = "seek" /\ nb > ndry
  /\ phase' = "cluster" /\ it' = it + 1
  /\ UNCHANGED <<maskout, ndry, nb, l, age>>

Next ==
  \/ \E n \in 0 .. Max : Increase(n)
  \/ StaysNew \/ MatchDone
  \/ \E idold \in 1 .. ndry : TakesNumber(idold)
  \/ Seek \/ SkipMissing \/ PassOver \/ Merge \/ Compared \/ StepDone

\* A sequential program.
Spec == Init /\ [][Next]_vars /\ WF_vars(Next)

-----------------------------------------------------------------------------
(* Properties                                                              *)

\* The numbers in the masks are exactly 1 .. ndry, whatever was taken over or
\* merged: getcomposites, which loops up to the largest and divides by the
\* number of steps each was found in, never divides by zero.
NumbersUsed == AllIds(maskout, Steps) = 1 .. ndry

\* A dry patch that is gone stays gone: the steps that have its number follow
\* one another without a gap.
LifetimesUnbroken ==
  \A t1, t3 \in Steps : \A t2 \in t1 .. t3 :
    Ids(maskout, t1) \cap Ids(maskout, t3) \subseteq Ids(maskout, t2)

\* Closing gaps runs over the masks of all steps, yet never changes the
\* numbers of a step that is complete.
HistoryKept == [][\A t \in 1 .. it - 1 : maskout'[t] = maskout[t]]_vars

\* The age of patch nb, counted before its comparisons, stays its age while
\* merges renumber patches under it: an older patch never gives way.
AgeIsCurrent == phase = "merge" => nb \in Ids(maskout, it) /\ age = Age(nb)

\* The loops end: Merge leaves l where it is, and the bounds shrink under the
\* loops.
Ends == <>(it = NT + 1)
=============================================================================
