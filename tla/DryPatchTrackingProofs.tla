----------------------- MODULE DryPatchTrackingProofs -----------------------
(***************************************************************************)
(* The numbers of dry patches, for any number of output steps and patches.  *)
(*                                                                         *)
(* The invariant behind the results: the numbers of the complete            *)
(* steps are 1 .. k for some k (PastClosed), so a number that no complete   *)
(* step has is above all of theirs, and closing the gap it leaves touches   *)
(* the current step only.  The last theorem gives the loops a measure.      *)
(***************************************************************************)
EXTENDS DryPatchTracking, FiniteSetTheorems, TLAPS

Past == 1 .. it - 1

MaskType == maskout \in [Steps -> [Patches -> Nat]]

OtherType ==
  /\ ndry \in Nat /\ it \in 1 .. NT + 1
  /\ phase \in {"cluster", "match", "seek", "merge"}
  /\ nb \in 1 .. ndry + 1 /\ l \in 1 .. ndry + 1
  /\ age \in Nat
  /\ phase # "merge" => l = 1

\* A step is being worked on in every phase but the first.
InStep == phase # "cluster" => it \in Steps

Bounded == \A t \in Steps, p \in Patches : maskout[t][p] <= ndry

Complete == \A i \in 1 .. ndry : \E t \in Steps, p \in Patches : maskout[t][p] = i

PastClosed ==
  \A t \in Past, p \in Patches : \A i \in 1 .. maskout[t][p] :
    \E s \in Past, q \in Patches : maskout[s][q] = i

\* The steps to come have no patches yet.
Blank ==
  \A t \in Steps, p \in Patches :
    t > it \/ (t = it /\ phase = "cluster") => maskout[t][p] = 0

\* The numbers still to be matched are above those of the complete steps.
Fresh ==
  phase = "match" => it > 1 /\ \A t \in Past, p \in Patches : maskout[t][p] < nb

Unbroken ==
  \A t1, t2, t3 \in Steps : t1 <= t2 /\ t2 <= t3 =>
    \A p, q \in Patches : maskout[t1][p] = maskout[t3][q] /\ maskout[t1][p] # 0 =>
      \E r \in Patches : maskout[t2][r] = maskout[t1][p]

Masks == MaskType /\ Bounded /\ Complete /\ PastClosed /\ Unbroken

IInv == Masks /\ OtherType /\ InStep /\ Blank /\ Fresh /\ AgeIsCurrent

\* The masks after number n of the current step became m and its gap closed.
Dropped(n, m) ==
  [t \in Steps |-> IF t = it THEN CloseGap(Relabel(maskout[t], n, m), n) ELSE maskout[t]]

-----------------------------------------------------------------------------

LEMMA PastIsSteps == ASSUME OtherType PROVE Past \subseteq Steps
  BY ConstantsAssumption DEF OtherType, Past, Steps

\* Giving up a number above all those of the complete steps: what TakesNumber
\* and Merge have in common.
LEMMA DropKeepsMasks ==
  ASSUME Masks, OtherType, Blank, it \in Steps, phase # "cluster",
         NEW n \in 1 .. ndry, NEW m \in 1 .. ndry, m # n,
         \A t \in Past, p \in Patches : maskout[t][p] < n,
         \/ \E p \in Patches : maskout[it][p] = m
         \/ it > 1 /\ \E p \in Patches : maskout[it - 1][p] = m,
         maskout' = Dropped(n, m), ndry' = ndry - 1, it' = it
  PROVE  Masks'
<1> DEFINE x(p) == IF maskout[it][p] = n THEN m ELSE maskout[it][p]
           y(p) == IF x(p) > n THEN x(p) - 1 ELSE x(p)
<1>0. /\ ndry \in Nat /\ it \in Nat /\ n \in Nat /\ m \in Nat /\ NT \in Nat
      /\ Past = 1 .. it - 1 /\ Past \subseteq Steps /\ it \in Steps /\ Steps = 1 .. NT
      /\ \A t \in Steps, p \in Patches : maskout[t][p] \in Nat
  BY PastIsSteps, ConstantsAssumption DEF OtherType, Masks, MaskType, Past, Steps
<1>1. \A t \in Steps, p \in Patches : maskout'[t][p] = IF t = it THEN y(p) ELSE maskout[t][p]
  BY <1>0 DEF Dropped, CloseGap, Relabel
<1>2. \A p \in Patches : x(p) \in Nat /\ x(p) <= ndry /\ x(p) # n /\ y(p) \in Nat
  BY <1>0 DEF Masks, Bounded
<1>3. MaskType'
  <2>1. \A p \in Patches : y(p) \in Nat
    BY <1>2
  <2>2. CloseGap(Relabel(maskout[it], n, m), n) = [p \in Patches |-> y(p)]
    BY DEF CloseGap, Relabel
  <2>3. CloseGap(Relabel(maskout[it], n, m), n) \in [Patches -> Nat]
    BY <2>1, <2>2
  <2> QED BY <2>3 DEF MaskType, Dropped, Masks
<1>4. Bounded'
  <2> SUFFICES ASSUME NEW t \in Steps, NEW p \in Patches PROVE maskout'[t][p] <= ndry - 1
    BY DEF Bounded
  <2>1. CASE t = it BY <2>1, <1>0, <1>1, <1>2
  <2>2. CASE t # it
    <3>1. t \in Past \/ maskout[t][p] = 0
      BY <2>2, <1>0 DEF Blank
    <3>2. maskout[t][p] < n
      BY <3>1, <1>0
    <3>3. maskout'[t][p] = maskout[t][p] /\ maskout[t][p] \in Nat
      BY <2>2, <1>0, <1>1
    <3>4. n <= ndry /\ n \in Nat /\ ndry \in Nat
      BY <1>0
    <3> QED BY ONLY <3>2, <3>3, <3>4
  <2> QED BY <2>1, <2>2
<1>5. Complete'
  <2> SUFFICES ASSUME NEW i \in 1 .. ndry - 1
               PROVE  \E t \in Steps, p \in Patches : maskout'[t][p] = i
    BY DEF Complete
  <2> DEFINE j == IF i < n THEN i ELSE i + 1
  <2>1. j \in 1 .. ndry /\ j # n
    BY <1>0
  <2>2. PICK t \in Steps, p \in Patches : maskout[t][p] = j
    BY <2>1 DEF Masks, Complete
  <2>3. CASE t = it
    <3>1. x(p) = j
      BY <2>1, <2>2, <2>3
    <3>2. y(p) = i
      BY <3>1, <1>0
    <3> QED BY <3>2, <2>3, <1>1
  <2>4. CASE t # it
    <3>1. t \in Past \/ maskout[t][p] = 0
      BY <2>4, <1>0 DEF Blank
    <3>2. j < n
      BY <3>1, <2>1, <2>2
    <3> QED BY <3>2, <2>2, <2>4, <1>0, <1>1
  <2> QED BY <2>3, <2>4
<1>6. \A t \in Past, p \in Patches : maskout'[t][p] = maskout[t][p]
  BY <1>0, <1>1
<1>7. PastClosed'
  BY <1>6 DEF Masks, PastClosed, Past
<1>8. Unbroken'
  <2> SUFFICES ASSUME NEW t1 \in Steps, NEW t2 \in Steps, NEW t3 \in Steps, t1 <= t2, t2 <= t3,
                      NEW p \in Patches, NEW q \in Patches,
                      maskout'[t1][p] = maskout'[t3][q], maskout'[t1][p] # 0
               PROVE  \E r \in Patches : maskout'[t2][r] = maskout'[t1][p]
    BY DEF Unbroken
  <2>1. t3 <= it
    <3> SUFFICES ASSUME t3 > it PROVE FALSE
      BY <1>0
    <3>1. maskout'[t3][q] = maskout[t3][q] /\ maskout[t3][q] = 0
      BY <1>0, <1>1 DEF Blank
    <3> QED BY <3>1
  <2>2. CASE t1 = it
    BY <2>1, <2>2, <1>0
  <2>3. CASE t3 < it
    <3>1. t1 \in Past /\ t2 \in Past /\ t3 \in Past
      BY <2>3, <1>0
    <3>2. maskout[t1][p] = maskout[t3][q] /\ maskout[t1][p] # 0
      BY <3>1, <1>6
    <3>3. PICK r \in Patches : maskout[t2][r] = maskout[t1][p]
      BY <3>2 DEF Masks, Unbroken
    <3> QED BY <3>1, <3>3, <1>6
  <2>4. CASE t1 < it /\ t3 = it
    <3> DEFINE i == maskout[t1][p]
    <3>1. t1 \in Past /\ maskout'[t1][p] = i /\ i \in Nat /\ i # 0 /\ i < n
      BY <2>4, <1>0, <1>6
    <3>2. y(q) = i
      BY <3>1, <2>4, <1>1
    <3>3. x(q) = i
      BY <3>1, <3>2, <1>2, <1>0
    <3>4. CASE t2 = it
      BY <3>1, <3>2, <3>4, <1>1
    <3>5. CASE t2 < it
      <4>1. t2 \in Past /\ it - 1 \in Past /\ it - 1 \in Steps /\ t2 <= it - 1
        BY <3>5, <1>0
      <4>2. \E s \in {it - 1, it}, r \in Patches : maskout[s][r] = i
        <5>1. CASE maskout[it][q] = n
          BY <5>1, <3>3
        <5>2. CASE maskout[it][q] # n
          BY <5>2, <3>3
        <5> QED BY <5>1, <5>2
      <4>3. PICK s \in {it - 1, it}, r \in Patches : maskout[s][r] = i
        BY <4>2
      <4>4. s \in Steps /\ t2 <= s
        BY <4>1, <4>3, <3>5, <1>0
      <4>5. \E u \in Patches : maskout[t2][u] = i
        BY <4>3, <4>4, <3>1 DEF Masks, Unbroken
      <4> QED BY <4>1, <4>5, <3>1, <1>6
    <3> QED BY <3>4, <3>5, <2>4, <1>0
  <2> QED BY <2>1, <2>2, <2>3, <2>4, <1>0
<1> QED BY <1>3, <1>4, <1>5, <1>7, <1>8 DEF Masks

\* Past numbers stay below a number that no complete step has.
LEMMA PastBelow ==
  ASSUME Masks, OtherType, NEW n \in 1 .. ndry,
         \A t \in Past, p \in Patches : maskout[t][p] # n
  PROVE  \A t \in Past, p \in Patches : maskout[t][p] < n
<1> SUFFICES ASSUME NEW t \in Past, NEW p \in Patches, maskout[t][p] >= n PROVE FALSE
  BY PastIsSteps DEF Masks, MaskType, OtherType
<1>1. n \in 1 .. maskout[t][p]
  BY PastIsSteps DEF Masks, MaskType, OtherType
<1> QED BY <1>1 DEF Masks, PastClosed

LEMMA InitIInv == Init => IInv
<1> SUFFICES ASSUME Init PROVE IInv
  OBVIOUS
<1> USE ConstantsAssumption DEF Init
<1>1. \A t \in Steps, p \in Patches : maskout[t][p] = 0
  OBVIOUS
<1>2. Masks
  BY <1>1 DEF Masks, MaskType, Bounded, Complete, PastClosed, Unbroken, Past
<1>3. OtherType /\ InStep /\ Blank /\ Fresh /\ AgeIsCurrent
  BY <1>1 DEF OtherType, InStep, Blank, Fresh, AgeIsCurrent
<1> QED BY <1>2, <1>3 DEF IInv

\* The masks and the step they belong to are as they were.
LEMMA SameMasks ==
  ASSUME Masks, OtherType, UNCHANGED <<maskout, ndry, it>> PROVE Masks'
BY DEF Masks, MaskType, Bounded, Complete, PastClosed, Unbroken, Past, OtherType

LEMMA AgeType ==
  ASSUME OtherType, NEW n PROVE Age(n) \in Nat
<1> DEFINE S == {t \in 1 .. it - 1 : n \in Ids(maskout, t)}
<1>1. IsFiniteSet(1 .. it - 1)
  BY FS_Interval, ConstantsAssumption DEF OtherType
<1>2. IsFiniteSet(S)
  BY <1>1, FS_Subset
<1> QED BY <1>2, FS_CardinalityType DEF Age

LEMMA IncreaseIInv ==
  ASSUME IInv, NEW n \in 0 .. Max, Increase(n) PROVE IInv'
<1>0. /\ ndry \in Nat /\ it \in Nat /\ it >= 1 /\ NT \in Nat /\ n \in Nat /\ Max \in Nat
      /\ it \in Steps /\ it' = it /\ ndry' = ndry + n /\ Past \subseteq Steps
      /\ Steps = 1 .. NT /\ Past = 1 .. it - 1
      /\ \A t \in Steps, p \in Patches : maskout[t][p] \in Nat
  BY ConstantsAssumption, PastIsSteps
     DEF IInv, OtherType, Masks, MaskType, Increase, Steps, Past
<1> DEFINE new(p) == IF p <= n THEN ndry + p ELSE 0
<1>1. \A t \in Steps, p \in Patches : maskout'[t][p] = IF t = it THEN new(p) ELSE maskout[t][p]
  BY <1>0 DEF Increase, IInv, Masks, MaskType
<1>2. \A p \in Patches : new(p) \in Nat /\ new(p) <= ndry + n /\ (new(p) = 0 \/ new(p) > ndry)
  BY <1>0 DEF Patches
<1>3. \A t \in Steps, p \in Patches : maskout[t][p] <= ndry
  BY DEF IInv, Masks, Bounded
<1>4. \A t \in Steps, p \in Patches : t >= it => maskout[t][p] = 0
  BY <1>0 DEF IInv, Blank, Increase
<1>5. MaskType'
  <2>1. [p \in Patches |-> new(p)] \in [Patches -> Nat]
    BY <1>2
  <2> QED BY <2>1 DEF MaskType, IInv, Masks, Increase
<1>6. Bounded'
  BY <1>0, <1>1, <1>2, <1>3 DEF Bounded
<1>7. Complete'
  <2> SUFFICES ASSUME NEW i \in 1 .. ndry + n
               PROVE  \E t \in Steps, p \in Patches : maskout'[t][p] = i
    BY <1>0 DEF Complete
  <2>1. CASE i <= ndry
    <3> i \in 1 .. ndry
      BY <2>1, <1>0
    <3>1. PICK t \in Steps, p \in Patches : maskout[t][p] = i
      BY DEF IInv, Masks, Complete
    <3>2. t # it
      BY <3>1, <1>4, <1>0
    <3> QED BY <3>1, <3>2, <1>1
  <2>2. CASE i > ndry
    <3>1. i - ndry \in Patches /\ new(i - ndry) = i
      BY <2>2, <1>0 DEF Patches
    <3>2. maskout'[it][i - ndry] = i
      BY <3>1, <1>0, <1>1
    <3> QED BY <3>1, <3>2, <1>0
  <2> QED BY <2>1, <2>2, <1>0
<1>8. \A t \in Past, p \in Patches : maskout'[t][p] = maskout[t][p]
  BY <1>0, <1>1
<1>9. PastClosed'
  <2>1. Past' = Past
    BY <1>0 DEF Past
  <2>2. PastClosed
    BY DEF IInv, Masks
  <2> QED BY <2>1, <2>2, <1>8 DEF PastClosed
<1>10. Unbroken'
  <2> SUFFICES ASSUME NEW t1 \in Steps, NEW t2 \in Steps, NEW t3 \in Steps, t1 <= t2, t2 <= t3,
                      NEW p \in Patches, NEW q \in Patches,
                      maskout'[t1][p] = maskout'[t3][q], maskout'[t1][p] # 0
               PROVE  \E r \in Patches : maskout'[t2][r] = maskout'[t1][p]
    BY DEF Unbroken
  <2>1. t3 <= it
    <3> SUFFICES ASSUME t3 > it PROVE FALSE
      BY <1>0
    <3>1. maskout'[t3][q] = 0
      BY <1>0, <1>1, <1>4
    <3> QED BY <3>1
  <2>2. CASE t1 = it
    BY <2>1, <2>2, <1>0
  <2>3. CASE t3 < it
    <3>1. t1 \in Past /\ t2 \in Past /\ t3 \in Past
      BY <2>3, <1>0
    <3>2. maskout[t1][p] = maskout[t3][q] /\ maskout[t1][p] # 0
      BY <3>1, <1>8
    <3>3. PICK r \in Patches : maskout[t2][r] = maskout[t1][p]
      BY <3>2 DEF IInv, Masks, Unbroken
    <3> QED BY <3>1, <3>3, <1>8
  <2>4. CASE t1 < it /\ t3 = it
    <3>1. t1 \in Past
      BY <2>4, <1>0
    <3>2. maskout'[t1][p] = maskout[t1][p] /\ maskout[t1][p] <= ndry /\ maskout[t1][p] \in Nat
      BY <3>1, <1>0, <1>3, <1>8
    <3>3. maskout'[t3][q] = new(q)
      BY <2>4, <1>1
    <3>4. new(q) > ndry
      BY <3>3, <1>2
    <3> HIDE DEF new
    <3>5. new(q) = maskout[t1][p]
      BY <3>2, <3>3
    <3>6. new(q) \in Nat
      BY <3>2, <3>5
    <3> QED BY <3>2, <3>4, <3>5, <3>6, <1>0
  <2> QED BY <2>1, <2>2, <2>3, <2>4, <1>0
<1>11. OtherType'
  BY <1>0 DEF IInv, OtherType, Increase
<1>12. Blank'
  BY <1>0, <1>1, <1>4 DEF Blank, Increase
<1>13. Fresh'
  <2> SUFFICES ASSUME phase' = "match", NEW t \in Past, NEW p \in Patches
               PROVE  it > 1 /\ maskout'[t][p] < nb'
    <3>1. phase' = "match" => it > 1
      BY DEF Increase
    <3> QED BY <1>0, <3>1 DEF Fresh, Past
  <2>1. nb' = ndry + 1 /\ it > 1
    BY DEF Increase
  <2>2. maskout'[t][p] = maskout[t][p] /\ maskout[t][p] <= ndry /\ maskout[t][p] \in Nat
    BY <1>0, <1>3, <1>8
  <2> QED BY <2>1, <2>2, <1>0
<1>14. InStep' /\ AgeIsCurrent'
  BY <1>0 DEF InStep, AgeIsCurrent, Increase
<1> QED BY <1>5, <1>6, <1>7, <1>9, <1>10, <1>11, <1>12, <1>13, <1>14 DEF IInv, Masks

\* A number of the step before or of the step itself is one of 1 .. ndry.
LEMMA IdsInRange ==
  ASSUME Masks, OtherType, NEW t \in Steps, NEW n \in Ids(maskout, t)
  PROVE  n \in 1 .. ndry /\ \E p \in Patches : maskout[t][p] = n
BY DEF Masks, MaskType, Bounded, Ids, OtherType

LEMMA TakesNumberIInv ==
  ASSUME IInv, NEW idold \in 1 .. ndry, TakesNumber(idold) PROVE IInv'
<1>0. /\ Masks /\ OtherType /\ Blank /\ it \in Steps /\ phase = "match" /\ it > 1
      /\ it' = it /\ ndry' = ndry - 1 /\ nb \in 1 .. ndry /\ ndry \in Nat /\ it \in Nat
      /\ NT \in Nat /\ Past = 1 .. it - 1 /\ Steps = 1 .. NT /\ it - 1 \in Steps /\ it - 1 \in Past
      /\ \A t \in Past, p \in Patches : maskout[t][p] < nb
  BY ConstantsAssumption DEF IInv, InStep, Fresh, OtherType, TakesNumber, Steps, Past
<1>1. PICK p0 \in Patches : maskout[it - 1][p0] = idold
  BY <1>0, IdsInRange DEF TakesNumber
<1>2. idold < nb
  BY <1>0, <1>1
<1>3. maskout' = Dropped(nb, idold)
  <2>1. \A t \in Steps : t > it => CloseGap(maskout[t], nb) = maskout[t]
    BY <1>0 DEF CloseGap, Masks, MaskType, Blank
  <2>2. \A t \in Steps : (IF t < it THEN maskout[t]
                          ELSE IF t = it THEN CloseGap(Relabel(maskout[t], nb, idold), nb)
                          ELSE CloseGap(maskout[t], nb))
                       = (IF t = it THEN CloseGap(Relabel(maskout[t], nb, idold), nb) ELSE maskout[t])
    BY <2>1, <1>0
  <2> QED BY <2>2 DEF TakesNumber, Dropped
<1>4. Masks'
  BY <1>0, <1>1, <1>2, <1>3, DropKeepsMasks
<1>5. \A t \in Steps \ {it} : maskout'[t] = maskout[t]
  BY <1>3 DEF Dropped
<1>6. Blank'
  BY <1>0, <1>5 DEF Blank, TakesNumber
<1>7. Fresh'
  BY <1>0, <1>5 DEF Fresh, TakesNumber, Past
<1>8. OtherType'
  BY <1>0, <1>2 DEF OtherType, TakesNumber, IInv
<1>9. InStep' /\ AgeIsCurrent'
  BY <1>0 DEF InStep, AgeIsCurrent, TakesNumber
<1> QED BY <1>4, <1>6, <1>7, <1>8, <1>9 DEF IInv

\* The part of Merge where an earlier step has number l too.
LEMMA MergeKeptIInv ==
  ASSUME IInv, Merge, l \in AllIds([maskout EXCEPT ![it] = Relabel(@, l, nb)], 1 .. it)
  PROVE  IInv'
<1> DEFINE x(p) == IF maskout[it][p] = l THEN nb ELSE maskout[it][p]
<1>0. /\ Masks /\ OtherType /\ it \in Steps /\ phase = "merge" /\ phase' = phase
      /\ it' = it /\ ndry' = ndry /\ nb' = nb /\ age' = age /\ l' = l
      /\ ndry \in Nat /\ it \in Nat /\ nb # l /\ l \in Nat /\ nb \in Nat
      /\ NT \in Nat /\ Past = 1 .. it - 1 /\ Steps = 1 .. NT /\ Past \subseteq Steps
      /\ nb \in Ids(maskout, it) /\ age = Age(nb)
      /\ \A t \in Steps, p \in Patches : maskout[t][p] \in Nat
  BY ConstantsAssumption, PastIsSteps
     DEF IInv, InStep, OtherType, Masks, MaskType, AgeIsCurrent, Merge, Steps, Past
<1>1. maskout' = [maskout EXCEPT ![it] = Relabel(@, l, nb)]
  BY DEF Merge
<1>2. \A t \in Steps, p \in Patches : maskout'[t][p] = IF t = it THEN x(p) ELSE maskout[t][p]
  BY <1>0, <1>1 DEF Relabel, Masks, MaskType
<1>3. \A t \in Steps \ {it} : maskout'[t] = maskout[t]
  BY <1>1, <1>0 DEF Masks, MaskType
<1>4. PICK pn \in Patches : maskout[it][pn] = nb
  BY <1>0 DEF Ids
<1>5. x(pn) = nb /\ nb <= ndry
  BY <1>4, <1>0 DEF Masks, Bounded
<1>6. PICK tl \in Past, pl \in Patches : maskout[tl][pl] = l
  <2>1. PICK t \in 1 .. it, p \in Patches : maskout'[t][p] = l
    BY <1>1 DEF AllIds, Ids
  <2>2. t # it
    BY <2>1, <1>0, <1>2
  <2>3. t \in Past /\ maskout[t][p] = l
    BY <2>1, <2>2, <1>0, <1>2
  <2> QED BY <2>3
<1>7. MaskType'
  <2>1. Relabel(maskout[it], l, nb) \in [Patches -> Nat]
    BY <1>0 DEF Relabel, Masks, MaskType
  <2> QED BY <2>1, <1>1, <1>0 DEF MaskType, Masks
<1>8. Bounded'
  BY <1>0, <1>2, <1>5 DEF Bounded, Masks
<1>9. Complete'
  <2> SUFFICES ASSUME NEW i \in 1 .. ndry
               PROVE  \E t \in Steps, p \in Patches : maskout'[t][p] = i
    BY <1>0 DEF Complete
  <2>1. CASE i = l
    BY <2>1, <1>6, <1>0, <1>2
  <2>2. CASE i # l
    <3>1. PICK t \in Steps, p \in Patches : maskout[t][p] = i
      BY <1>0 DEF Masks, Complete
    <3>2. maskout'[t][p] = i
      BY <3>1, <2>2, <1>2
    <3> QED BY <3>2
  <2> QED BY <2>1, <2>2
<1>10. \A t \in Past, p \in Patches : maskout'[t][p] = maskout[t][p]
  BY <1>0, <1>2
<1>11. PastClosed'
  <2>1. Past' = Past
    BY <1>0 DEF Past
  <2>2. PastClosed
    BY <1>0 DEF Masks
  <2> QED BY <2>1, <2>2, <1>10 DEF PastClosed
<1>12. Unbroken'
  <2> SUFFICES ASSUME NEW t1 \in Steps, NEW t2 \in Steps, NEW t3 \in Steps, t1 <= t2, t2 <= t3,
                      NEW p \in Patches, NEW q \in Patches,
                      maskout'[t1][p] = maskout'[t3][q], maskout'[t1][p] # 0
               PROVE  \E r \in Patches : maskout'[t2][r] = maskout'[t1][p]
    BY DEF Unbroken
  <2> DEFINE i == maskout'[t1][p]
  <2>0. \A t \in Steps, r \in Patches : maskout'[t][r] = i =>
          \E s \in Patches : maskout[t][s] = i
    BY <1>2, <1>4
  <2>1. PICK p1 \in Patches, q1 \in Patches : maskout[t1][p1] = i /\ maskout[t3][q1] = i
    BY <2>0
  <2>2. PICK r \in Patches : maskout[t2][r] = i
    BY <2>1, <1>0 DEF Masks, Unbroken
  <2>3. CASE t2 # it
    BY <2>2, <2>3, <1>2
  <2>4. CASE t2 = it /\ i # l
    BY <2>2, <2>4, <1>2
  <2>5. CASE t2 = it /\ i = l
    <3>1. t3 # it
      BY <2>5, <1>0, <1>2
    <3>2. t3 > it
      BY <3>1, <2>5, <1>0
    <3>3. maskout[t3][q] = 0
      BY <3>2 DEF IInv, Blank
    <3> QED BY <3>1, <3>3, <1>2
  <2> QED BY <2>3, <2>4, <2>5
<1>13. Masks'
  BY <1>7, <1>8, <1>9, <1>11, <1>12 DEF Masks
<1>14. AgeIsCurrent'
  <2>1. \A t \in 1 .. it - 1 : Ids(maskout', t) = Ids(maskout, t)
    BY <1>0, <1>3 DEF Ids, Past
  <2>2. {t \in 1 .. it - 1 : nb \in Ids(maskout', t)} = {t \in 1 .. it - 1 : nb \in Ids(maskout, t)}
    BY <2>1
  <2>3. Age(nb)' = Age(nb)
    BY <2>2, <1>0 DEF Age
  <2>4. nb \in Ids(maskout', it)
    BY <1>0, <1>2, <1>4, <1>5 DEF Ids
  <2> QED BY <2>3, <2>4, <1>0 DEF AgeIsCurrent
<1>15. OtherType' /\ InStep' /\ Fresh'
  BY <1>0 DEF OtherType, InStep, Fresh, IInv
<1>16. Blank'
  BY <1>0, <1>3 DEF Blank, IInv
<1> QED BY <1>13, <1>14, <1>15, <1>16 DEF IInv

\* The part of Merge that gives number l up: the masks of the complete steps
\* stay as they are.
LEMMA MergeDrops ==
  ASSUME IInv, Merge, l \notin AllIds([maskout EXCEPT ![it] = Relabel(@, l, nb)], 1 .. it)
  PROVE  /\ \A t \in Past, p \in Patches : maskout[t][p] < l
         /\ maskout' = Dropped(l, nb)
<1>0. /\ Masks /\ OtherType /\ it \in Steps /\ l \in 1 .. ndry
      /\ ndry \in Nat /\ it \in Nat /\ nb # l /\ l \in Nat /\ nb \in Nat
      /\ NT \in Nat /\ Past = 1 .. it - 1 /\ Steps = 1 .. NT /\ Past \subseteq Steps
      /\ \A t \in Steps, p \in Patches : maskout[t][p] \in Nat
  BY ConstantsAssumption, PastIsSteps
     DEF IInv, InStep, OtherType, Masks, MaskType, Merge, Steps, Past
<1> DEFINE merged == [maskout EXCEPT ![it] = Relabel(@, l, nb)]
<1>1. \A t \in Steps : merged[t] = IF t = it THEN Relabel(maskout[it], l, nb) ELSE maskout[t]
  BY <1>0 DEF Masks, MaskType
<1>2. \A t \in Past, p \in Patches : maskout[t][p] # l
  <2> SUFFICES ASSUME NEW t \in Past, NEW p \in Patches, maskout[t][p] = l PROVE FALSE
    OBVIOUS
  <2>1. merged[t][p] = l /\ l # 0 /\ t \in 1 .. it
    BY <1>0, <1>1
  <2>2. l \in Ids(merged, t)
    BY <2>1 DEF Ids
  <2> QED BY <2>1, <2>2 DEF AllIds
<1>3. \A t \in Past, p \in Patches : maskout[t][p] < l
  BY <1>0, <1>2, PastBelow
<1>4. \A t \in Steps : t # it => CloseGap(maskout[t], l) = maskout[t]
  <2> SUFFICES ASSUME NEW t \in Steps, t # it PROVE CloseGap(maskout[t], l) = maskout[t]
    OBVIOUS
  <2>1. \A p \in Patches : ~(maskout[t][p] > l)
    <3>1. t \in Past \/ \A p \in Patches : maskout[t][p] = 0
      BY <1>0 DEF IInv, Blank
    <3> QED BY <3>1, <1>0, <1>3
  <2>2. maskout[t] \in [Patches -> Nat]
    BY <1>0 DEF Masks, MaskType
  <2> QED BY <2>1, <2>2 DEF CloseGap
<1>5. maskout' = [t \in Steps |-> CloseGap(merged[t], l)]
  BY DEF Merge
<1>6. maskout' = Dropped(l, nb)
  BY <1>1, <1>4, <1>5 DEF Dropped
<1> QED BY <1>3, <1>6

LEMMA MergeDropsIInv ==
  ASSUME IInv, Merge, l \notin AllIds([maskout EXCEPT ![it] = Relabel(@, l, nb)], 1 .. it)
  PROVE  IInv'
<1>0. /\ Masks /\ OtherType /\ Blank /\ it \in Steps /\ phase = "merge" /\ phase' = phase
      /\ it' = it /\ ndry' = ndry - 1 /\ age' = age /\ l' = l
      /\ nb' = IF nb > l THEN nb - 1 ELSE nb
      /\ ndry \in Nat /\ it \in Nat /\ nb # l /\ l \in 1 .. ndry
      /\ NT \in Nat /\ Past = 1 .. it - 1 /\ Steps = 1 .. NT /\ Past \subseteq Steps
      /\ nb \in Ids(maskout, it) /\ age = Age(nb)
  BY ConstantsAssumption, PastIsSteps
     DEF IInv, InStep, OtherType, AgeIsCurrent, Merge, Steps, Past
<1>1. /\ \A t \in Past, p \in Patches : maskout[t][p] < l
      /\ maskout' = Dropped(l, nb)
  BY MergeDrops
<1>2. nb \in 1 .. ndry
  BY <1>0, IdsInRange
<1>3. PICK pn \in Patches : maskout[it][pn] = nb
  BY <1>0, IdsInRange
<1>4. Masks'
  BY <1>0, <1>1, <1>2, <1>3, DropKeepsMasks
<1>5. \A t \in Steps \ {it} : maskout'[t] = maskout[t]
  BY <1>1 DEF Dropped
<1>6. Blank'
  BY <1>0, <1>5 DEF Blank
<1>7. OtherType' /\ InStep' /\ Fresh'
  BY <1>0, <1>2 DEF OtherType, InStep, Fresh
<1>8. nb' \in Ids(maskout', it)
  <2>1. maskout'[it] = CloseGap(Relabel(maskout[it], l, nb), l)
    BY <1>1, <1>0 DEF Dropped
  <2>2. maskout'[it][pn] = nb'
    BY <2>1, <1>0, <1>2, <1>3 DEF CloseGap, Relabel
  <2>3. nb' # 0
    BY <1>0, <1>2
  <2> QED BY <2>2, <2>3 DEF Ids
<1>9. Age(nb)' = Age(nb)
  <2>1. \A t \in 1 .. it - 1 : nb' \in Ids(maskout', t) <=> nb \in Ids(maskout, t)
    <3> SUFFICES ASSUME NEW t \in 1 .. it - 1
                 PROVE  nb' \in Ids(maskout', t) <=> nb \in Ids(maskout, t)
      OBVIOUS
    <3>1. Ids(maskout', t) = Ids(maskout, t)
      BY <1>0, <1>5 DEF Ids
    <3>2. \A n \in Ids(maskout, t) : n < l
      BY <1>0, <1>1 DEF Ids
    <3>3. CASE nb > l
      <4>1. nb' >= l /\ nb' \in Nat /\ nb \in Nat /\ l \in Nat
        BY <3>3, <1>0, <1>2
      <4>2. nb' \notin Ids(maskout, t) /\ nb \notin Ids(maskout, t)
        BY <4>1, <3>2, <3>3
      <4> QED BY <4>2, <3>1
    <3>4. CASE ~(nb > l)
      BY <3>1, <3>4, <1>0
    <3> QED BY <3>3, <3>4
  <2>2. {t \in 1 .. it - 1 : nb' \in Ids(maskout', t)} = {t \in 1 .. it - 1 : nb \in Ids(maskout, t)}
    BY <2>1
  <2> QED BY <2>2, <1>0 DEF Age
<1>10. AgeIsCurrent'
  BY <1>0, <1>8, <1>9 DEF AgeIsCurrent
<1> QED BY <1>4, <1>6, <1>7, <1>10 DEF IInv

\* The other actions leave the masks alone.
LEMMA QuietIInv ==
  ASSUME IInv, StaysNew \/ MatchDone \/ Seek \/ SkipMissing \/ PassOver \/ Compared
  PROVE  IInv'
<1>0. /\ Masks /\ OtherType /\ InStep /\ Blank /\ Fresh /\ AgeIsCurrent
      /\ UNCHANGED <<maskout, ndry, it>>
      /\ phase # "cluster" /\ phase' # "cluster" /\ it \in Steps
  BY DEF IInv, InStep, StaysNew, MatchDone, Seek, SkipMissing, PassOver, Compared
<1>1. Masks'
  BY <1>0, SameMasks
<1>2. Blank' /\ InStep'
  BY <1>0 DEF Blank, InStep
<1>3. Age(nb) \in Nat
  BY <1>0, AgeType
<1>4. OtherType'
  <2> USE <1>0, <1>3 DEF OtherType
  <2>1. CASE StaysNew BY <2>1 DEF StaysNew
  <2>2. CASE MatchDone BY <2>2 DEF MatchDone
  <2>3. CASE Seek BY <2>3 DEF Seek
  <2>4. CASE SkipMissing BY <2>4 DEF SkipMissing
  <2>5. CASE PassOver BY <2>5 DEF PassOver
  <2>6. CASE Compared
    <3>1. nb \in 1 .. ndry
      BY <2>6, IdsInRange DEF AgeIsCurrent, Compared
    <3> QED BY <2>6, <3>1 DEF Compared
  <2> QED BY <2>1, <2>2, <2>3, <2>4, <2>5, <2>6
<1>5. Fresh'
  <2>1. CASE StaysNew
    <3>1. \A t \in Past, p \in Patches : maskout[t][p] \in Nat
      BY <1>0, PastIsSteps DEF Masks, MaskType
    <3> QED BY <2>1, <3>1, <1>0 DEF StaysNew, Fresh, Past, OtherType
  <2>2. CASE MatchDone \/ Seek \/ SkipMissing \/ PassOver \/ Compared
    BY <2>2 DEF Fresh, MatchDone, Seek, SkipMissing, PassOver, Compared
  <2> QED BY <2>1, <2>2
<1>6. AgeIsCurrent'
  <2>1. CASE Seek
    BY <2>1, <1>0 DEF Seek, AgeIsCurrent, Age
  <2>2. CASE PassOver
    BY <2>2, <1>0 DEF PassOver, AgeIsCurrent, Age
  <2>3. CASE StaysNew \/ MatchDone \/ SkipMissing \/ Compared
    BY <2>3 DEF AgeIsCurrent, StaysNew, MatchDone, SkipMissing, Compared
  <2> QED BY <2>1, <2>2, <2>3
<1> QED BY <1>1, <1>2, <1>4, <1>5, <1>6 DEF IInv

\* A complete step joins the others.
LEMMA StepDoneIInv == ASSUME IInv, StepDone PROVE IInv'
<1>0. /\ Masks /\ OtherType /\ Blank /\ it \in Steps /\ it' = it + 1 /\ it \in Nat
      /\ UNCHANGED <<maskout, ndry, nb, l, age>> /\ phase = "seek" /\ phase' = "cluster"
      /\ NT \in Nat /\ Steps = 1 .. NT /\ nb = ndry + 1 /\ ndry \in Nat
      /\ \A t \in Steps, p \in Patches : maskout[t][p] \in Nat
  BY ConstantsAssumption DEF IInv, InStep, OtherType, Masks, MaskType, StepDone, Steps
<1>1. MaskType' /\ Bounded' /\ Complete' /\ Unbroken'
  BY <1>0 DEF Masks, MaskType, Bounded, Complete, Unbroken
<1>2. PastClosed'
  <2> SUFFICES ASSUME NEW t \in 1 .. it, NEW p \in Patches, NEW i \in 1 .. maskout[t][p]
               PROVE  \E s \in 1 .. it, q \in Patches : maskout[s][q] = i
    BY <1>0 DEF PastClosed, Past
  <2>1. t \in Steps
    BY <1>0
  <2>2. i \in 1 .. ndry
    BY <2>1, <1>0 DEF Masks, Bounded
  <2>3. PICK s \in Steps, q \in Patches : maskout[s][q] = i
    BY <2>2, <1>0 DEF Masks, Complete
  <2>4. ~(s > it)
    BY <2>2, <2>3, <1>0 DEF Blank
  <2> QED BY <2>3, <2>4, <1>0
<1>3. Blank'
  BY <1>0 DEF Blank
<1>4. OtherType' /\ InStep' /\ Fresh' /\ AgeIsCurrent'
  BY <1>0 DEF OtherType, InStep, Fresh, AgeIsCurrent
<1> QED BY <1>1, <1>2, <1>3, <1>4 DEF IInv, Masks

LEMMA NextIInv == ASSUME IInv, [Next]_vars PROVE IInv'
<1>1. CASE \E n \in 0 .. Max : Increase(n)
  BY <1>1, IncreaseIInv
<1>2. CASE \E idold \in 1 .. ndry : TakesNumber(idold)
  BY <1>2, TakesNumberIInv
<1>3. CASE Merge
  BY <1>3, MergeKeptIInv, MergeDropsIInv
<1>4. CASE StaysNew \/ MatchDone \/ Seek \/ SkipMissing \/ PassOver \/ Compared
  BY <1>4, QuietIInv
<1>5. CASE StepDone
  BY <1>5, StepDoneIInv
<1>6. CASE UNCHANGED vars
  <2>1. Masks'
    BY <1>6, SameMasks DEF IInv, vars
  <2>2. (OtherType /\ InStep /\ Blank /\ Fresh /\ AgeIsCurrent)'
    BY <1>6 DEF IInv, OtherType, InStep, Blank, Fresh, Past, AgeIsCurrent, Age, vars
  <2> QED BY <2>1, <2>2 DEF IInv
<1> QED BY <1>1, <1>2, <1>3, <1>4, <1>5, <1>6 DEF Next

\* The invariant holds of every run.
THEOREM Invariance == Spec => []IInv
BY InitIInv, NextIInv, PTL DEF Spec

\* Types, for every number of steps and patches.
THEOREM TypeCorrect == Spec => []TypeOK
<1>1. IInv => TypeOK
  BY DEF IInv, Masks, MaskType, OtherType, TypeOK
<1> QED BY <1>1, Invariance, PTL

\* The numbers of the masks are 1 .. ndry, for every number of steps and
\* patches and every way the patches lie.
THEOREM NumbersCorrect == Spec => []NumbersUsed
<1>1. IInv => NumbersUsed
  <2> SUFFICES ASSUME IInv PROVE NumbersUsed
    OBVIOUS
  <2>1. Masks /\ OtherType
    BY DEF IInv
  <2>2. \A i \in AllIds(maskout, Steps) : i \in 1 .. ndry
    <3> SUFFICES ASSUME NEW t \in Steps, NEW i \in Ids(maskout, t) PROVE i \in 1 .. ndry
      BY DEF AllIds
    <3> QED BY <2>1, IdsInRange
  <2>3. \A i \in 1 .. ndry : i \in AllIds(maskout, Steps)
    <3> SUFFICES ASSUME NEW i \in 1 .. ndry PROVE i \in AllIds(maskout, Steps)
      OBVIOUS
    <3>1. PICK t \in Steps, p \in Patches : maskout[t][p] = i
      BY <2>1 DEF Masks, Complete
    <3>2. i \in Ids(maskout, t)
      BY <3>1 DEF Ids
    <3> QED BY <3>2 DEF AllIds
  <2> QED BY <2>2, <2>3 DEF NumbersUsed
<1> QED BY <1>1, Invariance, PTL

\* No number comes back after a step without it.
THEOREM LifetimesCorrect == Spec => []LifetimesUnbroken
<1>1. IInv => LifetimesUnbroken
  <2> SUFFICES ASSUME IInv, NEW t1 \in Steps, NEW t3 \in Steps, NEW t2 \in t1 .. t3,
                      NEW i \in Ids(maskout, t1) \cap Ids(maskout, t3)
               PROVE  i \in Ids(maskout, t2)
    BY DEF LifetimesUnbroken
  <2>1. PICK p \in Patches, q \in Patches : maskout[t1][p] = i /\ maskout[t3][q] = i
    BY DEF Ids
  <2>2. i # 0
    BY DEF Ids
  <2>3. t2 \in Steps /\ t1 <= t2 /\ t2 <= t3
    BY ConstantsAssumption DEF Steps
  <2>4. PICK r \in Patches : maskout[t2][r] = maskout[t1][p]
    BY <2>1, <2>2, <2>3 DEF IInv, Masks, Unbroken
  <2> QED BY <2>1, <2>2, <2>4 DEF Ids
<1> QED BY <1>1, Invariance, PTL

\* The age kept through the comparisons is the age of the patch.
THEOREM AgesCorrect == Spec => []AgeIsCurrent
<1>1. IInv => AgeIsCurrent
  BY DEF IInv
<1> QED BY <1>1, Invariance, PTL

\* The mask of a complete step never changes.
THEOREM HistoryCorrect == Spec => HistoryKept
<1>1. ASSUME IInv, [Next]_vars
      PROVE  \A t \in 1 .. it - 1 : maskout'[t] = maskout[t]
  <2> SUFFICES ASSUME NEW t \in Past PROVE maskout'[t] = maskout[t]
    BY DEF Past
  <2>1. t \in Steps /\ t < it /\ t # it /\ MaskType
    BY <1>1, PastIsSteps, ConstantsAssumption DEF IInv, OtherType, Past, Masks
  <2>2. CASE \E n \in 0 .. Max : Increase(n)
    BY <2>1, <2>2 DEF Increase, MaskType
  <2>3. CASE \E idold \in 1 .. ndry : TakesNumber(idold)
    BY <2>1, <2>3 DEF TakesNumber
  <2>4. CASE Merge
    <3>1. CASE l \in AllIds([maskout EXCEPT ![it] = Relabel(@, l, nb)], 1 .. it)
      BY <2>1, <2>4, <3>1 DEF Merge, MaskType
    <3>2. CASE l \notin AllIds([maskout EXCEPT ![it] = Relabel(@, l, nb)], 1 .. it)
      <4>1. maskout' = Dropped(l, nb)
        BY <1>1, <2>4, <3>2, MergeDrops
      <4> QED BY <4>1, <2>1 DEF Dropped
    <3> QED BY <3>1, <3>2
  <2>5. CASE \/ StaysNew \/ MatchDone \/ Seek \/ SkipMissing \/ PassOver \/ Compared
             \/ StepDone \/ UNCHANGED vars
    BY <2>5 DEF StaysNew, MatchDone, Seek, SkipMissing, PassOver, Compared, StepDone, vars
  <2> QED BY <1>1, <2>2, <2>3, <2>4, <2>5 DEF Next
<1>2. IInv /\ [Next]_vars => [\A t \in 1 .. it - 1 : maskout'[t] = maskout[t]]_vars
  BY <1>1
<1> QED BY <1>2, Invariance, PTL DEF Spec, HistoryKept

-----------------------------------------------------------------------------
(* The loops descend                                                         *)

\* What is left to do, the outermost loop first: output steps, the parts of a
\* step, patches nb, whether the comparisons of nb are still to begin, patches
\* l, and the numbers of the step, of which a merge that keeps number l takes
\* one away.
Measure ==
  << NT + 1 - it,
     IF phase = "cluster" THEN 2 ELSE IF phase = "match" THEN 1 ELSE 0,
     ndry + 1 - nb,
     IF phase = "merge" THEN 0 ELSE 1,
     ndry + 1 - l,
     Cardinality(Ids(maskout, it)) >>

Below   == OpToRel(<, Nat)
Descent == LexProductOrdering(Below, Nat, 6)

LEMMA DescentEnds == IsWellFoundedOn(Descent, [1 .. 6 -> Nat])
BY NatLessThanWellFounded, WFLexProductOrdering DEF Descent, Below

\* One measure is below another if it is at the first place where they differ.
LEMMA Descends ==
  ASSUME NEW m \in [1 .. 6 -> Nat], NEW n \in [1 .. 6 -> Nat], NEW j \in 1 .. 6,
         \A i \in 1 .. 6 : i < j => m[i] = n[i],
         m[j] < n[j]
  PROVE  <<m, n>> \in Descent
<1>1. \A i \in 1 .. j - 1 : m[i] = n[i]
  OBVIOUS
<1>2. <<m[j], n[j]>> \in Below
  BY DEF Below, OpToRel
<1> QED BY <1>1, <1>2 DEF Descent, LexProductOrdering

LEMMA IdsFinite ==
  ASSUME NEW m, NEW t PROVE IsFiniteSet(Ids(m, t)) /\ Cardinality(Ids(m, t)) \in Nat
<1>1. IsFiniteSet(Patches)
  BY FS_Interval, ConstantsAssumption DEF Patches
<1> DEFINE S == {m[t][p] : p \in Patches}  f == [p \in Patches |-> m[t][p]]
<1>2. IsFiniteSet(S)
  <2>1. f \in Surjection(Patches, S)
    BY DEF Surjection
  <2> QED BY <1>1, <2>1, FS_Surjection
<1>3. IsFiniteSet(Ids(m, t))
  BY <1>2, FS_Subset DEF Ids
<1> QED BY <1>3, FS_CardinalityType

LEMMA MeasureType == IInv => Measure \in [1 .. 6 -> Nat]
<1> SUFFICES ASSUME IInv PROVE Measure \in [1 .. 6 -> Nat]
  OBVIOUS
<1>1. NT + 1 - it \in Nat /\ ndry + 1 - nb \in Nat /\ ndry + 1 - l \in Nat
  BY ConstantsAssumption DEF IInv, OtherType
<1>2. Cardinality(Ids(maskout, it)) \in Nat
  BY IdsFinite
<1> QED BY <1>1, <1>2 DEF Measure

\* The measure a step leaves is well typed too.
LEMMA MeasureTypeNext == ASSUME IInv, [Next]_vars PROVE Measure' \in [1 .. 6 -> Nat]
<1>1. IInv'
  BY NextIInv
<1>2. (IInv => Measure \in [1 .. 6 -> Nat])'
  BY MeasureType, PTL
<1> QED BY <1>1, <1>2

\* A merge that keeps number l takes it from the step.
LEMMA MergeTakesNumber ==
  ASSUME IInv, Merge, l \in AllIds([maskout EXCEPT ![it] = Relabel(@, l, nb)], 1 .. it)
  PROVE  Cardinality(Ids(maskout, it))' = Cardinality(Ids(maskout, it)) - 1
<1>0. /\ Masks /\ OtherType /\ it \in Steps /\ it' = it /\ nb # l /\ l # 0
      /\ l \in Ids(maskout, it) /\ nb \in Ids(maskout, it)
      /\ maskout' = [maskout EXCEPT ![it] = Relabel(@, l, nb)]
  BY DEF IInv, InStep, OtherType, AgeIsCurrent, Merge, Ids
<1>1. maskout'[it] = [p \in Patches |-> IF maskout[it][p] = l THEN nb ELSE maskout[it][p]]
  BY <1>0 DEF Masks, MaskType, Relabel
<1>2. Ids(maskout', it) = Ids(maskout, it) \ {l}
  <2>1. ASSUME NEW i \in Ids(maskout', it) PROVE i \in Ids(maskout, it) \ {l}
    <3>1. PICK p \in Patches : i = maskout'[it][p] /\ i # 0
      BY DEF Ids
    <3>2. CASE maskout[it][p] = l
      BY <1>0, <1>1, <3>1, <3>2
    <3>3. CASE maskout[it][p] # l
      BY <1>1, <3>1, <3>3 DEF Ids
    <3> QED BY <3>2, <3>3
  <2>2. ASSUME NEW i \in Ids(maskout, it) \ {l} PROVE i \in Ids(maskout', it)
    <3>1. PICK p \in Patches : i = maskout[it][p] /\ i # 0
      BY DEF Ids
    <3>2. maskout'[it][p] = i
      BY <1>1, <3>1
    <3> QED BY <3>1, <3>2 DEF Ids
  <2> QED BY <2>1, <2>2
<1> QED BY <1>0, <1>2, IdsFinite, FS_RemoveElement

\* Whatever step is taken, the measure descends.
LEMMA MeasureStep == ASSUME IInv, Next PROVE <<Measure', Measure>> \in Descent
<1> DEFINE C == Cardinality(Ids(maskout, it))
           S == NT + 1 - it
           R == IF phase = "cluster" THEN 2 ELSE IF phase = "match" THEN 1 ELSE 0
           N == ndry + 1 - nb
           K == IF phase = "merge" THEN 0 ELSE 1
           L == ndry + 1 - l
<1>0. /\ OtherType /\ AgeIsCurrent /\ Masks
      /\ Measure = <<S, R, N, K, L, C>> /\ Measure' = <<S', R', N', K', L', C'>>
      /\ Measure \in [1 .. 6 -> Nat] /\ Measure' \in [1 .. 6 -> Nat]
  BY MeasureType, MeasureTypeNext DEF IInv, Measure
<1>1. /\ ndry \in Nat /\ it \in Nat /\ nb \in Nat /\ l \in Nat /\ NT \in Nat
      /\ C \in Nat /\ C' \in Nat
  BY <1>0, IdsFinite, ConstantsAssumption DEF OtherType
<1>2. maskout' = maskout /\ it' = it => C' = C
  OBVIOUS
<1> HIDE DEF C
\* The first place at which the two measures differ.
<1>3. ASSUME S' < S PROVE <<Measure', Measure>> \in Descent
  <2>1. Measure'[1] < Measure[1]
    BY <1>0, <1>3
  <2>2. \A i \in 1 .. 6 : i < 1 => Measure'[i] = Measure[i]
    OBVIOUS
  <2> QED BY <1>0, <2>1, <2>2, Descends
<1>4. ASSUME S' = S, R' < R PROVE <<Measure', Measure>> \in Descent
  <2>1. Measure'[2] < Measure[2]
    BY <1>0, <1>4
  <2>2. \A i \in 1 .. 6 : i < 2 => Measure'[i] = Measure[i]
    BY <1>0, <1>4
  <2> QED BY <1>0, <2>1, <2>2, Descends
<1>5. ASSUME S' = S, R' = R, N' < N PROVE <<Measure', Measure>> \in Descent
  <2>1. Measure'[3] < Measure[3]
    BY <1>0, <1>5
  <2>2. \A i \in 1 .. 6 : i < 3 => Measure'[i] = Measure[i]
    BY <1>0, <1>5
  <2> QED BY <1>0, <2>1, <2>2, Descends
<1>6. ASSUME S' = S, R' = R, N' = N, K' < K PROVE <<Measure', Measure>> \in Descent
  <2>1. Measure'[4] < Measure[4]
    BY <1>0, <1>6
  <2>2. \A i \in 1 .. 6 : i < 4 => Measure'[i] = Measure[i]
    BY <1>0, <1>6
  <2> QED BY <1>0, <2>1, <2>2, Descends
<1>7. ASSUME S' = S, R' = R, N' = N, K' = K, L' < L PROVE <<Measure', Measure>> \in Descent
  <2>1. Measure'[5] < Measure[5]
    BY <1>0, <1>7
  <2>2. \A i \in 1 .. 6 : i < 5 => Measure'[i] = Measure[i]
    BY <1>0, <1>7
  <2> QED BY <1>0, <2>1, <2>2, Descends
<1>8. ASSUME S' = S, R' = R, N' = N, K' = K, L' = L, C' < C
      PROVE  <<Measure', Measure>> \in Descent
  <2>1. Measure'[6] < Measure[6]
    BY <1>0, <1>8
  <2>2. \A i \in 1 .. 6 : i < 6 => Measure'[i] = Measure[i]
    BY <1>0, <1>8
  <2> QED BY <1>0, <2>1, <2>2, Descends
<1>9. CASE \E n \in 0 .. Max : Increase(n)
  <2>1. it' = it /\ phase = "cluster" /\ phase' \in {"match", "seek"}
    BY <1>9 DEF Increase
  <2> QED BY <1>4, <2>1
<1>10. CASE StaysNew \/ SkipMissing
  <2>1. it' = it /\ phase' = phase /\ ndry' = ndry /\ nb' = nb + 1
    BY <1>10 DEF StaysNew, SkipMissing
  <2> QED BY <1>1, <1>5, <2>1
<1>11. CASE MatchDone
  <2>1. it' = it /\ phase = "match" /\ phase' = "seek"
    BY <1>11 DEF MatchDone
  <2> QED BY <1>4, <2>1
<1>12. CASE \E idold \in 1 .. ndry : TakesNumber(idold)
  <2>1. it' = it /\ phase' = phase /\ ndry' = ndry - 1 /\ nb' = nb
    BY <1>12 DEF TakesNumber
  <2> QED BY <1>1, <1>5, <2>1
<1>13. CASE Seek
  <2>1. it' = it /\ phase = "seek" /\ phase' = "merge" /\ ndry' = ndry /\ nb' = nb
    BY <1>13 DEF Seek
  <2> QED BY <1>6, <2>1
<1>14. CASE PassOver
  <2>1. it' = it /\ phase' = phase /\ ndry' = ndry /\ nb' = nb /\ l' = l + 1
    BY <1>14 DEF PassOver
  <2> QED BY <1>1, <1>7, <2>1
<1>15. CASE Merge
  <2>0. it' = it /\ phase' = phase /\ l' = l
    BY <1>15 DEF Merge
  <2>1. CASE l \in AllIds([maskout EXCEPT ![it] = Relabel(@, l, nb)], 1 .. it)
    <3>1. ndry' = ndry /\ nb' = nb
      BY <1>15, <2>1 DEF Merge
    <3>2. C' = C - 1
      BY <1>15, <2>1, MergeTakesNumber DEF C
    <3> QED BY <1>1, <1>8, <2>0, <3>1, <3>2
  <2>2. CASE l \notin AllIds([maskout EXCEPT ![it] = Relabel(@, l, nb)], 1 .. it)
    <3>1. ndry' = ndry - 1 /\ nb' = IF nb > l THEN nb - 1 ELSE nb
      BY <1>15, <2>2 DEF Merge
    <3>2. CASE nb > l
      BY <1>1, <1>7, <2>0, <3>1, <3>2
    <3>3. CASE ~(nb > l)
      BY <1>1, <1>5, <2>0, <3>1, <3>3
    <3> QED BY <3>2, <3>3
  <2> QED BY <2>1, <2>2
<1>16. CASE Compared
  <2>1. it' = it /\ phase = "merge" /\ phase' = "seek" /\ ndry' = ndry /\ nb' = nb + 1
    BY <1>16 DEF Compared
  <2> QED BY <1>1, <1>5, <2>1
<1>17. CASE StepDone
  <2>1. it' = it + 1
    BY <1>17 DEF StepDone
  <2> QED BY <1>1, <1>3, <2>1
<1> QED
  BY <1>9, <1>10, <1>11, <1>12, <1>13, <1>14, <1>15, <1>16, <1>17, Zenon DEF Next

\* The loops over steps, patches and pairs of patches cannot go on for ever,
\* although merges leave the inner counter where it is and take away from
\* the bounds of the outer ones: every turn descends in an order without
\* infinite descent, for any number of steps and patches.
THEOREM LoopsDescend ==
  /\ IsWellFoundedOn(Descent, [1 .. 6 -> Nat])
  /\ Spec => [](Measure \in [1 .. 6 -> Nat]) /\ [][(<<Measure', Measure>> \in Descent)]_vars
<1>1. IInv => Measure \in [1 .. 6 -> Nat]
  BY MeasureType
<1>2. IInv /\ [Next]_vars => [(<<Measure', Measure>> \in Descent)]_vars
  BY MeasureStep
<1>3. Spec => [](Measure \in [1 .. 6 -> Nat]) /\ [][(<<Measure', Measure>> \in Descent)]_vars
  BY <1>1, <1>2, Invariance, PTL DEF Spec
<1> QED BY <1>3, DescentEnds
=============================================================================
