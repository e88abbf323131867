------------------------- MODULE RocketStatesProofs -------------------------
(***************************************************************************)
(* Proofs about RocketStates, for every configuration of states,           *)
(* transitions and actions, and every course of the inputs and the clock.  *)
(***************************************************************************)
EXTENDS RocketStates, FiniteSetTheorems, WellFoundedInduction, TLAPS

(* A nonempty set of indices has a largest one: the smallest of the sets   *)
(* of indices from one of them on begins with it.                          *)
LEMMA LargestIndex ==
  ASSUME NEW n \in Nat, NEW K \in SUBSET (1 .. n), K # {}
  PROVE  \E k \in K : \A j \in K : j <= k
  <1> DEFINE From(k) == {j \in K : k <= j}
             T == {From(k) : k \in K}
             R == StrictSubsetOrdering(K)
  <1>0. IsFiniteSet(1 .. n)
    BY FS_Interval
  <1>1. IsFiniteSet(K)
    BY <1>0, FS_Subset
  <1>2. T \subseteq FiniteSubsetsOf(K) /\ T # {}
    <2>1. \A k \in K : From(k) \in SUBSET K
      OBVIOUS
    <2>2. \A k \in K : IsFiniteSet(From(k))
      <3> HIDE DEF From
      <3> QED  BY <1>1, <2>1, FS_Subset
    <2> QED  BY <2>1, <2>2 DEF FiniteSubsetsOf
  <1>3. IsWellFoundedOn(R, FiniteSubsetsOf(K))
    BY FS_StrictSubsetOrderingWellFounded
  <1>4. \E x \in T : \A y \in T : <<y, x>> \notin R
    <2> HIDE DEF R, T
    <2> QED  BY <1>2, <1>3, WFMin
  <1>5. PICK k \in K : \A j \in K : <<From(j), From(k)>> \notin R
    BY <1>4
  <1>6. ASSUME NEW j \in K, k < j PROVE FALSE
    <2>1. From(j) \subseteq From(k) /\ k \in From(k) /\ k \notin From(j)
      <3>1. j \in Nat /\ k \in Nat /\ \A i \in K : i \in Nat
        OBVIOUS
      <3>2. \A i \in From(j) : k <= i
        BY <1>6, <3>1
      <3>3. k \notin From(j)
        BY <1>6, <3>1
      <3>4. k \in From(k)
        BY <3>1
      <3>5. From(j) \subseteq From(k)
        BY <3>2
      <3> QED  BY <3>3, <3>4, <3>5
    <2>2. <<From(j), From(k)>> \in R
      <3>1. From(j) \in SUBSET K /\ From(k) \in SUBSET K
        OBVIOUS
      <3> HIDE DEF From
      <3> QED  BY <2>1, <3>1 DEF StrictSubsetOrdering
    <2> QED  BY <1>5, <2>2
  <1> QED  BY <1>6

(* A set that contains with a number all those down to a is an interval.   *)
LEMMA ClosedInterval ==
  ASSUME NEW a \in Nat, NEW b \in Nat, a <= b + 1,
         NEW D \in SUBSET (a .. b),
         \A k \in D : \A j \in a .. k : j \in D
  PROVE  /\ Cardinality(D) \in 0 .. b + 1 - a
         /\ D = a .. a + Cardinality(D) - 1
  <1> DEFINE c == Cardinality(D)
  <1>1. IsFiniteSet(a .. b) /\ Cardinality(a .. b) = b - a + 1
    BY FS_Interval
  <1>2. IsFiniteSet(D) /\ c <= b - a + 1
    BY <1>1, FS_Subset
  <1>3. c \in Nat
    BY <1>2, FS_CardinalityType
  <1>4. ASSUME NEW k \in D PROVE k <= a + c - 1
    <2>1. a .. k \subseteq D /\ k \in Nat /\ a <= k
      OBVIOUS
    <2>2. Cardinality(a .. k) <= c
      BY <1>2, <2>1, FS_Subset
    <2>3. Cardinality(a .. k) = k - a + 1
      BY <2>1, FS_Interval
    <2> HIDE DEF c
    <2> QED  BY <1>3, <2>1, <2>2, <2>3
  <1>5. ASSUME NEW k \in a .. a + c - 1, k \notin D PROVE FALSE
    <2>1. k \in Nat /\ a <= k /\ k <= a + c - 1
      BY <1>3
    <2>2. D \subseteq a .. k - 1
      BY <1>5, <2>1
    <2>3. IsFiniteSet(a .. k - 1) /\ Cardinality(a .. k - 1) = k - a
      <3>1. /\ IsFiniteSet(a .. k - 1)
            /\ Cardinality(a .. k - 1)
                 = IF a > k - 1 THEN 0 ELSE k - 1 - a + 1
        BY <2>1, FS_Interval
      <3> QED  BY <2>1, <3>1
    <2>4. c <= Cardinality(a .. k - 1)
      <3>1. \A S, E : IsFiniteSet(S) /\ E \in SUBSET S => Cardinality(E) <= Cardinality(S)
        BY FS_Subset
      <3> QED  BY <2>2, <2>3, <3>1
    <2> HIDE DEF c
    <2> QED  BY <1>3, <2>1, <2>3, <2>4
  <1> HIDE DEF c
  <1>6. D = a .. a + c - 1
    <2>1. \A k \in D : k \in a .. a + c - 1
      BY <1>3, <1>4
    <2> QED  BY <1>5, <2>1
  <1> QED  BY <1>2, <1>3, <1>6 DEF c

(* The actions of a state, and that they are in the order of their times.  *)
LEMMA ActionTypes ==
  ASSUME NEW s \in States
  PROVE  /\ Len(Actions[s]) \in Nat
         /\ DOMAIN Actions[s] = 1 .. Len(Actions[s])
         /\ \A k \in 1 .. Len(Actions[s]) :
              /\ Actions[s][k].time \in Nat
              /\ Actions[s][k].elem \in Elem \ {stateElem}
              /\ Actions[s][k].val \in Values(Actions[s][k].elem)
              /\ Actions[s][k].val \in Nat
         /\ \A i, j \in 1 .. Len(Actions[s]) :
              i < j => Actions[s][i].time <= Actions[s][j].time
  <1>1. Actions[s] \in Seq(Action)
    BY SmConfigAssumption DEF SmConfigVerified
  <1>2. Len(Actions[s]) \in Nat /\ DOMAIN Actions[s] = 1 .. Len(Actions[s])
    BY <1>1
  <1>3. \A k \in 1 .. Len(Actions[s]) : Actions[s][k] \in Action
    BY <1>1
  <1> QED
    BY <1>2, <1>3, SmConfigAssumption DEF Action

(* The actions that a step executes are those from the iterator to the     *)
(* place where it stops.                                                   *)
LEMMA DueIsInterval ==
  ASSUME NEW s \in States, NEW iter \in 1 .. Len(Actions[s]) + 1,
         NEW elapsed \in Nat
  PROVE  \E next \in iter .. Len(Actions[s]) + 1 :
           /\ iter + Cardinality(Due(s, iter, elapsed)) = next
           /\ Due(s, iter, elapsed) = iter .. next - 1
  <1> DEFINE due == Due(s, iter, elapsed)
  <1>1. Len(Actions[s]) \in Nat /\ due \subseteq iter .. Len(Actions[s])
    BY ActionTypes DEF Due
  <1>2. ASSUME NEW k \in due, NEW j \in iter .. k PROVE j \in due
    <2>1. k \in iter .. Len(Actions[s]) /\ Actions[s][k].time <= elapsed
      BY DEF Due
    <2>2. j \in iter .. Len(Actions[s]) /\ (j = k \/ j < k)
      BY <1>1, <2>1
    <2>3. Actions[s][j].time <= Actions[s][k].time
      BY <1>1, <2>1, <2>2, ActionTypes
    <2>4. Actions[s][j].time <= elapsed
      BY <1>1, <2>1, <2>2, <2>3, ActionTypes
    <2> QED  BY <2>2, <2>4 DEF Due
  <1> HIDE DEF due
  <1>3. /\ Cardinality(due) \in 0 .. Len(Actions[s]) + 1 - iter
        /\ due = iter .. iter + Cardinality(due) - 1
    <2>1. iter \in Nat /\ iter <= Len(Actions[s]) + 1
      BY <1>1
    <2> QED  BY <1>1, <1>2, <2>1, ClosedInterval
  <1> QED  BY <1>1, <1>3 DEF due

(* The indices below b are those below a and the others.                   *)
LEMMA SplitInterval ==
  ASSUME NEW a \in Nat \ {0}, NEW b \in Nat, a <= b
  PROVE  /\ a .. b - 1 \subseteq Nat
         /\ \A k \in 1 .. b - 1 :
              k \in Nat /\ (k \in a .. b - 1 \/ k \in 1 .. a - 1)
         /\ \A j \in a .. b - 1 : j \in 1 .. b - 1 /\ a <= j /\ j < b
         /\ \A j \in 1 .. a - 1 : j \in 1 .. b - 1 /\ j < a
  OBVIOUS

LEMMA InInterval ==
  ASSUME NEW a \in Nat, NEW b \in Nat, NEW k \in Nat
  PROVE  k \in a .. b - 1 <=> a <= k /\ k < b
  OBVIOUS

(* What executing some actions of a state does to an element: if none of   *)
(* them writes it, it keeps its value ...                                  *)
LEMMA ExecutedKeeps ==
  ASSUME NEW s \in States, NEW K \in SUBSET Nat, NEW d, NEW e \in Elem,
         \A k \in K : Actions[s][k].elem # e
  PROVE  Executed(d, s, K)[e] = d[e]
  BY DEF Executed

(* ... and otherwise the last of them that does decides.                   *)
LEMMA ExecutedWrites ==
  ASSUME NEW s \in States, NEW K \in SUBSET Nat, NEW d, NEW e \in Elem,
         NEW k \in K, Actions[s][k].elem = e,
         \A j \in K : Actions[s][j].elem = e => j <= k
  PROVE  Executed(d, s, K)[e] = Actions[s][k].val
  <1>0. \A j \in K : j \in Nat
    OBVIOUS
  <1>1. ASSUME NEW j \in K, Actions[s][j].elem = e,
               \A i \in K : Actions[s][i].elem = e => i <= j
        PROVE  j = k
    <2>1. j <= k /\ k <= j
      BY <1>1
    <2>2. j \in Nat /\ k \in Nat
      BY <1>0
    <2> QED  BY <2>1, <2>2
  <1>2. LastWrite(s, K, e) = k
    BY <1>1 DEF LastWrite
  <1> QED  BY <1>2 DEF Executed

LEMMA ExecutedType ==
  ASSUME NEW s \in States, NEW K \in SUBSET (1 .. Len(Actions[s])),
         NEW d \in DataVectors
  PROVE  Executed(d, s, K) \in DataVectors
  <1>0. \A i \in 1 .. Len(Actions[s]) :
          /\ Actions[s][i].val \in Values(Actions[s][i].elem)
          /\ Actions[s][i].val \in Nat
    BY ActionTypes
  <1>K. K \in SUBSET Nat
    BY ActionTypes
  <1>1. ASSUME NEW e \in Elem
        PROVE  Executed(d, s, K)[e] \in Values(e) /\ Executed(d, s, K)[e] \in Nat
    <2> DEFINE W == {k \in K : Actions[s][k].elem = e}
    <2>1. CASE W = {}
      <3>1. \A k \in K : Actions[s][k].elem # e
        BY <2>1
      <3>2. Executed(d, s, K)[e] = d[e]
        BY <1>K, <3>1, ExecutedKeeps
      <3> QED  BY <3>2 DEF DataVectors
    <2>2. CASE W # {}
      <3>1. Len(Actions[s]) \in Nat /\ W \in SUBSET (1 .. Len(Actions[s]))
        BY ActionTypes
      <3>2. PICK k \in W : \A j \in W : j <= k
        BY <2>2, <3>1, LargestIndex
      <3>3. k \in 1 .. Len(Actions[s]) /\ Actions[s][k].elem = e /\ k \in K
        OBVIOUS
      <3>4. \A j \in K : Actions[s][j].elem = e => j <= k
        BY <3>2
      <3> HIDE DEF W
      <3>5. Executed(d, s, K)[e] = Actions[s][k].val
        BY <1>K, <3>3, <3>4, ExecutedWrites
      <3> QED  BY <1>0, <3>3, <3>5
    <2> QED  BY <2>1, <2>2
  <1>2. Executed(d, s, K) = [e \in Elem |-> Executed(d, s, K)[e]]
    BY DEF Executed
  <1> QED  BY <1>1, <1>2 DEF DataVectors

-----------------------------------------------------------------------------
(* What makes ActionsExactlyOnce inductive: the actions before the         *)
(* iterator are those that ran, and those whose time has been reached.     *)
Progress ==
  LET acts == DOMAIN Actions[mStateCurrent]
  IN  /\ runs = [k \in acts |-> IF k < mActionIter THEN 1 ELSE 0]
      /\ stepped => \A k \in acts :
           k < mActionIter <=> Actions[mStateCurrent][k].time <= reached
      /\ ~stepped => mActionIter = 1 /\ reached = 0

IInv == TypeOK /\ StateElemAgrees /\ Progress /\ ActionsInEffect

LEMMA InitEstablishesIInv == Init => IInv
  <1> SUFFICES ASSUME Init PROVE IInv
    OBVIOUS
  <1>1. mStateCurrent \in States /\ mActionIter = 1
    BY EnvironmentAssumption DEF Init, StateMachineInit
  <1>2. /\ Len(Actions[mStateCurrent]) \in Nat
        /\ DOMAIN Actions[mStateCurrent] = 1 .. Len(Actions[mStateCurrent])
    BY <1>1, ActionTypes
  <1>3. TypeOK
    <2>1. runs \in [DOMAIN Actions[mStateCurrent] -> Nat]
      BY DEF Init, StateMachineInit, NoRuns
    <2>2. mActionIter \in 1 .. Len(Actions[mStateCurrent]) + 1
      BY <1>1, <1>2
    <2>3. 0 \in 0 .. MaxTime
      BY EnvironmentAssumption
    <2> QED
      BY <1>1, <2>1, <2>2, <2>3, EnvironmentAssumption
      DEF Init, StateMachineInit, TypeOK, Error_t
  <1>4. Progress
    BY <1>1, <1>2 DEF Init, StateMachineInit, Progress, NoRuns
  <1>5. StateElemAgrees /\ ActionsInEffect
    BY <1>1 DEF Init, StateMachineInit, StateElemAgrees, ActionsInEffect
  <1> QED  BY <1>3, <1>4, <1>5 DEF IInv

(* Others write none of the elements that the State Machine writes.        *)
LEMMA InputsKeepIInv ==
  ASSUME IInv, Inputs
  PROVE  IInv'
  <1>1. PICK f \in [InputElems -> UNION {Values(e) : e \in InputElems}] :
          /\ \A e \in InputElems : f[e] \in Values(e)
          /\ dv' = [e \in Elem |-> IF e \in InputElems THEN f[e] ELSE dv[e]]
    BY DEF Inputs
  <1>2. dv' \in DataVectors
    <2>1. \A e \in Elem : Values(e) \subseteq Nat
      BY DEF Values
    <2>2. \A e \in InputElems : e \in Elem
      BY EnvironmentAssumption
    <2> QED  BY <1>1, <2>1, <2>2 DEF IInv, TypeOK, DataVectors
  <1>3. \A e \in Elem \ InputElems : dv'[e] = dv[e]
    BY <1>1
  <1>4. TypeOK'
    BY <1>2 DEF IInv, TypeOK, Inputs, smVars
  <1>5. StateElemAgrees'
    BY <1>3, EnvironmentAssumption, SmConfigAssumption
    DEF IInv, StateElemAgrees, Inputs, smVars, SmConfigVerified
  <1>6. Progress'
    BY DEF IInv, Progress, Inputs, smVars
  <1>7. ActionsInEffect'
    <2> SUFFICES ASSUME NEW e \in Elem,
                        NEW k \in 1 .. mActionIter - 1,
                        Actions[mStateCurrent][k].elem = e,
                        \A j \in 1 .. mActionIter - 1 :
                          Actions[mStateCurrent][j].elem = e => j <= k
                 PROVE  dv'[e] = Actions[mStateCurrent][k].val
      BY DEF ActionsInEffect, Inputs, smVars
    <2>1. mStateCurrent \in States /\ k \in DOMAIN Actions[mStateCurrent]
      BY ActionTypes DEF IInv, TypeOK
    <2>2. e \notin InputElems
      BY <2>1, EnvironmentAssumption DEF ActionElems
    <2>3. dv[e] = Actions[mStateCurrent][k].val
      BY DEF IInv, ActionsInEffect
    <2> QED  BY <1>3, <2>2, <2>3
  <1> QED  BY <1>4, <1>5, <1>6, <1>7 DEF IInv

-----------------------------------------------------------------------------
(* The state and the iterator after a step in state s that executes the    *)
(* actions from iter on that are due, on the Data Vector d.                *)
Advanced(s, iter, elapsed, d) ==
  LET due == Due(s, iter, elapsed)
  IN  /\ mStateCurrent' = s
      /\ mActionIter' = iter + Cardinality(due)
      /\ dv' = Executed(d, s, due)

(* What is common to a step that stays and one that switches.              *)
LEMMA AdvancedKeeps ==
  ASSUME NEW s \in States, NEW iter \in 1 .. Len(Actions[s]) + 1,
         NEW elapsed \in Nat, NEW d \in DataVectors, d[stateElem] = s,
         Advanced(s, iter, elapsed, d),
         \A e \in Elem : \A k \in 1 .. iter - 1 :
           /\ Actions[s][k].elem = e
           /\ \A j \in 1 .. iter - 1 : Actions[s][j].elem = e => j <= k
           => d[e] = Actions[s][k].val
  PROVE  /\ dv' \in DataVectors
         /\ mActionIter' \in iter .. Len(Actions[s]) + 1
         /\ Due(s, iter, elapsed) = iter .. mActionIter' - 1
         /\ StateElemAgrees'
         /\ ActionsInEffect'
  <1> DEFINE due == Due(s, iter, elapsed)
  <1>1. /\ mActionIter' \in iter .. Len(Actions[s]) + 1
        /\ due = iter .. mActionIter' - 1
    BY DueIsInterval DEF Advanced
  <1>2. Len(Actions[s]) \in Nat /\ iter \in Nat /\ mActionIter' \in Nat
    BY <1>1, ActionTypes
  <1>3. due \in SUBSET (1 .. Len(Actions[s]))
    BY <1>1, <1>2
  <1> HIDE DEF due
  <1>N. due \in SUBSET Nat
    BY <1>2, <1>3
  <1>4. mStateCurrent' = s /\ dv' = Executed(d, s, due)
    BY DEF Advanced, due
  <1>5. dv' \in DataVectors
    BY <1>3, <1>4, ExecutedType
  <1>6. StateElemAgrees'
    <2>1. stateElem \in Elem
      BY SmConfigAssumption DEF SmConfigVerified
    <2>2. \A k \in due : Actions[s][k].elem # stateElem
      BY <1>3, ActionTypes
    <2>3. dv'[stateElem] = d[stateElem]
      BY <1>N, <1>4, <2>1, <2>2, ExecutedKeeps
    <2> QED  BY <1>4, <2>3 DEF StateElemAgrees
  <1>7. ASSUME NEW e \in Elem, NEW k \in 1 .. mActionIter' - 1,
               Actions[s][k].elem = e,
               \A j \in 1 .. mActionIter' - 1 : Actions[s][j].elem = e => j <= k
        PROVE  dv'[e] = Actions[s][k].val
    <2>1. /\ \A j \in 1 .. mActionIter' - 1 :
               j \in Nat /\ (j \in due \/ j \in 1 .. iter - 1)
          /\ \A j \in due : j \in 1 .. mActionIter' - 1 /\ iter <= j
          /\ \A j \in 1 .. iter - 1 : j \in 1 .. mActionIter' - 1 /\ j < iter
      <3> SUFFICES iter \in Nat \ {0} /\ iter <= mActionIter'
        BY <1>1, <1>2, SplitInterval
      <3> QED  BY <1>1, <1>2
    <2>2. CASE k \in due
      <3>1. \A j \in due : Actions[s][j].elem = e => j <= k
        BY <1>7, <2>1
      <3>2. Executed(d, s, due)[e] = Actions[s][k].val
        <4>1. Actions[s][k].elem = e
          BY <1>7
        <4> QED  BY <1>N, <2>2, <3>1, <4>1, ExecutedWrites
      <3> QED  BY <1>4, <3>2
    <2>3. CASE k \notin due
      <3>1. k \in 1 .. iter - 1 /\ k \in Nat /\ k < iter
        BY <2>1, <2>3
      <3>2. ASSUME NEW j \in due PROVE ~(j <= k)
        <4>1. j \in Nat /\ iter <= j
          BY <1>N, <2>1
        <4> QED  BY <1>2, <3>1, <4>1
      <3>3. \A j \in due : Actions[s][j].elem # e
        BY <1>7, <2>1, <3>2
      <3>4. dv'[e] = d[e]
        BY <1>N, <1>4, <3>3, ExecutedKeeps
      <3>5. \A j \in 1 .. iter - 1 : Actions[s][j].elem = e => j <= k
        BY <1>7, <2>1
      <3> QED  BY <1>7, <3>1, <3>4, <3>5
    <2> QED  BY <2>2, <2>3
  <1>8. ActionsInEffect'
    BY <1>4, <1>7 DEF ActionsInEffect
  <1> QED  BY <1>1, <1>5, <1>6, <1>8 DEF due

LEMMA StayKeepsIInv ==
  ASSUME IInv, NEW t \in 0 .. MaxTime, StepStay(t),
         phase = "step", phase' = "inputs",
         runs' = Count(runs, Due(mStateCurrent, mActionIter, t - mStateStartTimeNs)),
         reached' = IF t - mStateStartTimeNs > reached
                    THEN t - mStateStartTimeNs ELSE reached,
         stepped' = TRUE
  PROVE  IInv'
  <1> DEFINE s == mStateCurrent
             elapsed == t - mStateStartTimeNs
             due == Due(s, mActionIter, elapsed)
  <1>1. /\ s \in States /\ dv \in DataVectors
        /\ mActionIter \in 1 .. Len(Actions[s]) + 1
        /\ elapsed \in 0 .. MaxTime /\ elapsed \in Nat
        /\ reached \in 0 .. MaxTime
    BY EnvironmentAssumption DEF IInv, TypeOK, StepStay
  <1>2. Advanced(s, mActionIter, elapsed, dv)
    BY DEF StepStay, Advanced
  <1>3. dv[stateElem] = s
    BY DEF IInv, StateElemAgrees
  <1>4. \A e \in Elem : \A k \in 1 .. mActionIter - 1 :
           /\ Actions[s][k].elem = e
           /\ \A j \in 1 .. mActionIter - 1 : Actions[s][j].elem = e => j <= k
           => dv[e] = Actions[s][k].val
    BY DEF IInv, ActionsInEffect
  <1> HIDE DEF s, elapsed
  <1>5. /\ dv' \in DataVectors
        /\ mActionIter' \in mActionIter .. Len(Actions[s]) + 1
        /\ due = mActionIter .. mActionIter' - 1
        /\ StateElemAgrees' /\ ActionsInEffect'
    BY <1>1, <1>2, <1>3, <1>4, AdvancedKeeps
  <1>6. /\ Len(Actions[s]) \in Nat
        /\ DOMAIN Actions[s] = 1 .. Len(Actions[s])
        /\ \A k \in DOMAIN Actions[s] : Actions[s][k].time \in Nat
    BY <1>1, ActionTypes
  <1>7. /\ mStateCurrent' = s /\ mStateStartTimeNs' = mStateStartTimeNs
        /\ ret' = "E_SUCCESS"
    BY DEF StepStay, s
  <1>8. runs' = [k \in DOMAIN Actions[s] |-> IF k < mActionIter' THEN 1 ELSE 0]
    <2>1. runs = [k \in DOMAIN Actions[s] |-> IF k < mActionIter THEN 1 ELSE 0]
      BY DEF IInv, Progress, s
    <2>2. runs' = Count(runs, due)
      BY DEF s, elapsed
    <2>3. runs' = [k \in DOMAIN Actions[s] |->
                     IF k \in due THEN runs[k] + 1 ELSE runs[k]]
      BY <2>1, <2>2 DEF Count
    <2>4. \A k \in DOMAIN Actions[s] :
            (IF k \in due THEN runs[k] + 1 ELSE runs[k])
              = IF k < mActionIter' THEN 1 ELSE 0
      BY <1>1, <1>5, <1>6, <2>1
    <2> QED  BY <2>3, <2>4
  <1>9. \A k \in DOMAIN Actions[s] :
          k < mActionIter' <=> Actions[s][k].time <= reached'
    <2>1. reached' \in Nat /\ reached <= reached' /\ elapsed <= reached'
          /\ (reached' = reached \/ reached' = elapsed)
      BY <1>1 DEF elapsed
    <2> SUFFICES ASSUME NEW k \in DOMAIN Actions[s]
                 PROVE  k < mActionIter' <=> Actions[s][k].time <= reached'
      OBVIOUS
    <2>2. k \in Nat /\ Actions[s][k].time \in Nat
      BY <1>6
    <2>3. k \in due <=> k >= mActionIter /\ Actions[s][k].time <= elapsed
      BY <1>1, <1>6 DEF Due
    <2>4. stepped => (k < mActionIter <=> Actions[s][k].time <= reached)
      BY DEF IInv, Progress, s
    <2>5. ~stepped => mActionIter = 1 /\ reached = 0
      BY DEF IInv, Progress
    <2>6. mActionIter \in Nat /\ mActionIter' \in Nat /\ mActionIter <= mActionIter'
      BY <1>1, <1>5, <1>6
    <2>7. k \in due <=> mActionIter <= k /\ k < mActionIter'
      <3>1. due = mActionIter .. mActionIter' - 1
        BY <1>5
      <3>2. k \in mActionIter .. mActionIter' - 1
              <=> mActionIter <= k /\ k < mActionIter'
        BY <2>2, <2>6, InInterval
      <3> HIDE DEF due
      <3> QED  BY <3>1, <3>2
    <2> HIDE DEF due
    <2>8. CASE stepped
      BY <1>1, <2>1, <2>2, <2>3, <2>4, <2>6, <2>7, <2>8
    <2>9. CASE ~stepped
      BY <1>1, <1>6, <2>1, <2>2, <2>3, <2>5, <2>6, <2>7, <2>9
    <2> QED  BY <2>8, <2>9
  <1>10. TypeOK'
    <2>1. reached' \in 0 .. MaxTime
      BY <1>1 DEF elapsed
    <2>2. runs' \in [DOMAIN Actions[s] -> Nat]
      BY <1>8
    <2>3. mActionIter' \in 1 .. Len(Actions[s]) + 1
      BY <1>1, <1>5, <1>6
    <2> QED
      BY <1>1, <1>5, <1>7, <2>1, <2>2, <2>3 DEF IInv, TypeOK, Error_t
  <1>11. Progress'
    BY <1>7, <1>8, <1>9 DEF Progress
  <1> QED  BY <1>5, <1>10, <1>11 DEF IInv

LEMMA SwitchKeepsIInv ==
  ASSUME IInv, NEW t \in 0 .. MaxTime, StepSwitch(t),
         phase = "step", phase' = "inputs",
         runs' = Count(NoRuns(mStateCurrent'),
                       Due(mStateCurrent', FirstAction(mStateCurrent'), 0)),
         reached' = 0, stepped' = TRUE
  PROVE  IInv'
  <1>1. PICK s \in States :
          /\ mStateCurrent' = s /\ mStateStartTimeNs' = t
          /\ dv' = Executed(Entered(s), s, Due(s, 1, 0))
          /\ mActionIter' = 1 + Cardinality(Due(s, 1, 0))
          /\ ret' = "E_SUCCESS"
    BY DEF StepSwitch, FirstAction
  <1> DEFINE d == Entered(s)
             due == Due(s, 1, 0)
  <1>2. d \in DataVectors /\ d[stateElem] = s
    <2>1. s \in Values(stateElem) /\ s \in Nat /\ stateElem \in Elem
      BY SmConfigAssumption DEF SmConfigVerified, Values
    <2>2. dv \in [Elem -> Nat] /\ \A e \in Elem : dv[e] \in Values(e)
      BY DEF IInv, TypeOK, DataVectors
    <2> QED  BY <2>1, <2>2 DEF Entered, DataVectors
  <1>3. /\ Len(Actions[s]) \in Nat
        /\ DOMAIN Actions[s] = 1 .. Len(Actions[s])
        /\ \A k \in DOMAIN Actions[s] : Actions[s][k].time \in Nat
    BY ActionTypes
  <1>4. 1 \in 1 .. Len(Actions[s]) + 1 /\ 0 \in Nat
    BY <1>3
  <1>5. Advanced(s, 1, 0, d)
    BY <1>1 DEF Advanced
  <1> HIDE DEF d
  <1>6. /\ dv' \in DataVectors
        /\ mActionIter' \in 1 .. Len(Actions[s]) + 1
        /\ due = 1 .. mActionIter' - 1
        /\ StateElemAgrees' /\ ActionsInEffect'
    <2>1. \A k : k \notin 1 .. 1 - 1
      OBVIOUS
    <2> QED  BY <1>2, <1>4, <1>5, <2>1, AdvancedKeeps
  <1>7. \A k \in DOMAIN Actions[s] :
          /\ k \in due <=> k < mActionIter'
          /\ k \in due <=> Actions[s][k].time <= 0
    <2> SUFFICES ASSUME NEW k \in DOMAIN Actions[s]
                 PROVE  /\ k \in due <=> k < mActionIter'
                        /\ k \in due <=> Actions[s][k].time <= 0
      OBVIOUS
    <2>1. k \in Nat /\ 1 <= k /\ mActionIter' \in Nat /\ k \in 1 .. Len(Actions[s])
      BY <1>3, <1>6
    <2>2. k \in due <=> Actions[s][k].time <= 0
      BY <2>1 DEF Due
    <2>3. k \in 1 .. mActionIter' - 1 <=> 1 <= k /\ k < mActionIter'
      BY <2>1, InInterval
    <2> HIDE DEF due
    <2> QED  BY <1>6, <2>1, <2>2, <2>3
  <1>8. runs' = [k \in DOMAIN Actions[s] |-> IF k < mActionIter' THEN 1 ELSE 0]
    <2>1. runs' = [k \in DOMAIN Actions[s] |-> IF k \in due THEN 0 + 1 ELSE 0]
      BY <1>1 DEF Count, NoRuns, FirstAction
    <2> HIDE DEF due
    <2> QED  BY <1>7, <2>1
  <1>9. TypeOK'
    <2>1. runs' \in [DOMAIN Actions[s] -> Nat]
      BY <1>8
    <2>2. 0 \in 0 .. MaxTime
      BY EnvironmentAssumption
    <2> QED  BY <1>1, <1>6, <2>1, <2>2 DEF TypeOK, Error_t
  <1>10. Progress'
    <2> HIDE DEF due
    <2> QED  BY <1>1, <1>7, <1>8 DEF Progress
  <1> QED  BY <1>6, <1>9, <1>10 DEF IInv

LEMMA StepKeepsIInv ==
  ASSUME IInv, NEW t \in 0 .. MaxTime, Step(t)
  PROVE  IInv'
  <1>1. CASE StepInvalidTime(t) /\ UNCHANGED <<runs, stepped, reached>>
    <2>1. UNCHANGED <<dv, smVars, runs, stepped, reached>>
      BY <1>1 DEF StepInvalidTime
    <2>2. TypeOK'
      BY <1>1, <2>1 DEF IInv, TypeOK, Step, StepInvalidTime, smVars, Error_t
    <2>3. StateElemAgrees' /\ ActionsInEffect'
      BY <2>1 DEF IInv, StateElemAgrees, ActionsInEffect, smVars
    <2>4. Progress'
      BY <2>1 DEF IInv, Progress, smVars
    <2> QED  BY <2>2, <2>3, <2>4 DEF IInv
  <1>2. CASE /\ StepStay(t)
             /\ LET elapsed == t - mStateStartTimeNs
                IN  /\ runs' = Count(runs, Due(mStateCurrent, mActionIter, elapsed))
                    /\ reached' = IF elapsed > reached THEN elapsed ELSE reached
             /\ stepped' = TRUE
    BY <1>2, StayKeepsIInv DEF Step
  <1>3. CASE /\ StepSwitch(t)
             /\ runs' = Count(NoRuns(mStateCurrent'),
                              Due(mStateCurrent', FirstAction(mStateCurrent'), 0))
             /\ reached' = 0
             /\ stepped' = TRUE
    BY <1>3, SwitchKeepsIInv DEF Step
  <1> QED  BY <1>1, <1>2, <1>3 DEF Step

LEMMA IInvIsInvariant == Spec => []IInv
  <1>1. Init => IInv
    BY InitEstablishesIInv
  <1>2. IInv /\ [Next]_vars => IInv'
    <2> SUFFICES ASSUME IInv, [Next]_vars PROVE IInv'
      OBVIOUS
    <2>1. CASE Inputs
      BY <2>1, InputsKeepIInv
    <2>2. ASSUME NEW t \in 0 .. MaxTime, Step(t) PROVE IInv'
      BY <2>2, StepKeepsIInv
    <2>3. CASE UNCHANGED vars
      <3>1. UNCHANGED <<dv, ret, mStateCurrent, mStateStartTimeNs, mActionIter,
                        phase, runs, stepped, reached>>
        BY <2>3 DEF vars, smVars
      <3>2. TypeOK'
        BY <3>1 DEF IInv, TypeOK
      <3>3. StateElemAgrees' /\ ActionsInEffect' /\ Progress'
        BY <3>1 DEF IInv, StateElemAgrees, ActionsInEffect, Progress
      <3> QED  BY <3>2, <3>3 DEF IInv
    <2> QED  BY <2>1, <2>2, <2>3 DEF Next
  <1> QED  BY <1>1, <1>2, PTL DEF Spec

-----------------------------------------------------------------------------
(* Type correctness: the iterator never runs past the end of the actions   *)
(* of its state, and no action or input leaves the range of its element    *)
(* (StateMachine.cpp, Actions::checkActions).                              *)
THEOREM TypeCorrect == Spec => []TypeOK
  <1>1. IInv => TypeOK
    BY DEF IInv
  <1> QED  BY <1>1, IInvIsInvariant, PTL

(* The state element of the Data Vector is the state of the State Machine  *)
(* (StateMachine::switchState).                                            *)
THEOREM StateAgrees == Spec => []StateElemAgrees
  <1>1. IInv => StateElemAgrees
    BY DEF IInv
  <1> QED  BY <1>1, IInvIsInvariant, PTL

(* Each action of a state runs once when its time is reached, and not      *)
(* before, for every course of the clock (Actions::checkActions).          *)
THEOREM ExactlyOnce == Spec => []ActionsExactlyOnce
  <1>1. IInv => ActionsExactlyOnce
    <2> SUFFICES ASSUME IInv, NEW k \in DOMAIN Actions[mStateCurrent]
                 PROVE  runs[k] = IF stepped /\ Actions[mStateCurrent][k].time <= reached
                                  THEN 1 ELSE 0
      BY DEF ActionsExactlyOnce
    <2>1. runs[k] = IF k < mActionIter THEN 1 ELSE 0
      BY DEF IInv, Progress
    <2>2. k \in 1 .. Len(Actions[mStateCurrent])
      BY ActionTypes DEF IInv, TypeOK
    <2>3. CASE stepped
      <3>1. k < mActionIter <=> Actions[mStateCurrent][k].time <= reached
        BY <2>3 DEF IInv, Progress
      <3> QED  BY <2>1, <2>3, <3>1
    <2>4. CASE ~stepped
      <3>1. mActionIter = 1
        BY <2>4 DEF IInv, Progress
      <3>2. ~(k < mActionIter)
        BY <2>2, <3>1
      <3> QED  BY <2>1, <2>4, <3>2
    <2> QED  BY <2>3, <2>4
  <1> QED  BY <1>1, IInvIsInvariant, PTL

(* What the latest action of the state wrote is in effect as long as the   *)
(* state lasts (Action::execute).                                          *)
THEOREM InEffect == Spec => []ActionsInEffect
  <1>1. IInv => ActionsInEffect
    BY DEF IInv
  <1> QED  BY <1>1, IInvIsInvariant, PTL

(* The state element moves only along the first transition of the state    *)
(* whose comparison holds (Transitions::checkTransitions).                 *)
THEOREM MovesAreTransitions == Spec => ObservedMovesAreTransitions
  <1> DEFINE Move ==
               dv'[stateElem] # dv[stateElem] =>
                 \E i \in DOMAIN Transitions[dv[stateElem]] :
                   /\ Transitions[dv[stateElem]][i].target = dv'[stateElem]
                   /\ Holds(dv, Transitions[dv[stateElem]][i])
                   /\ \A j \in 1 .. i - 1 :
                        ~Holds(dv, Transitions[dv[stateElem]][j])
  <1>1. ASSUME IInv, IInv', [Next]_vars PROVE [Move]_vars
    <2>1. dv[stateElem] = mStateCurrent /\ dv'[stateElem] = mStateCurrent'
      BY <1>1 DEF IInv, StateElemAgrees
    <2>2. ASSUME NEW t \in 0 .. MaxTime, StepSwitch(t) PROVE Move
      <3>1. PICK s \in States : IsTarget(dv, mStateCurrent, s) /\ mStateCurrent' = s
        BY <2>2 DEF StepSwitch
      <3>2. PICK i \in Matching(dv, mStateCurrent) :
              /\ \A j \in Matching(dv, mStateCurrent) : i <= j
              /\ s = Transitions[mStateCurrent][i].target
        BY <3>1 DEF IsTarget
      <3>3. Transitions[mStateCurrent] \in Seq(Transition)
        BY <1>1, SmConfigAssumption DEF IInv, TypeOK, SmConfigVerified
      <3>4. /\ Len(Transitions[mStateCurrent]) \in Nat
            /\ DOMAIN Transitions[mStateCurrent] = 1 .. Len(Transitions[mStateCurrent])
        BY <3>3
      <3>5. /\ i \in DOMAIN Transitions[mStateCurrent]
            /\ Holds(dv, Transitions[mStateCurrent][i])
        BY <3>2 DEF Matching
      <3>6. ASSUME NEW j \in 1 .. i - 1, Holds(dv, Transitions[mStateCurrent][j])
            PROVE  FALSE
        <4>1. i \in Nat /\ j \in Nat /\ j < i /\ j \in DOMAIN Transitions[mStateCurrent]
          BY <3>4, <3>5
        <4>2. i <= j
          BY <3>2, <3>6, <4>1 DEF Matching
        <4> QED  BY <4>1, <4>2
      <3> QED  BY <2>1, <3>1, <3>2, <3>5, <3>6
    <2>3. CASE mStateCurrent' = mStateCurrent
      BY <2>1, <2>3
    <2>4. CASE UNCHANGED vars
      BY <2>4
    <2>5. CASE Inputs
      BY <2>3, <2>5 DEF Inputs, smVars
    <2>6. ASSUME NEW t \in 0 .. MaxTime, Step(t) PROVE Move
      <3>1. CASE StepSwitch(t)
        BY <2>2, <3>1
      <3>2. CASE ~StepSwitch(t)
        <4>1. mStateCurrent' = mStateCurrent
          BY <2>6, <3>2 DEF Step, StepInvalidTime, StepStay, smVars
        <4> QED  BY <2>1, <4>1
      <3> QED  BY <3>1, <3>2
    <2> QED  BY <1>1, <2>4, <2>5, <2>6 DEF Next
  <1> QED  BY <1>1, IInvIsInvariant, PTL DEF Spec, ObservedMovesAreTransitions
=============================================================================
