---------------------------- MODULE StateMachine ----------------------------
(***************************************************************************)
(* StateMachine with its States, Transitions and Actions: one step () per  *)
(* Control Node loop.  A step takes the first transition whose comparison  *)
(* holds, if any, and then executes the actions of the current state whose *)
(* time has come and that were not executed since the state was entered.   *)
(***************************************************************************)
EXTENDS DataVector, Sequences, FiniteSets

CONSTANTS
  States,        \* the state ids of the configuration
  Transitions,   \* of each state, the list of its transitions, in order
  Actions,       \* of each state, its actions, in the order of their times
  stateElem      \* Data Vector element that holds the state (mDvStateElem)

Comparison == {"CMP_EQUALS", "CMP_GREATER_EQUALS_THAN", "CMP_LESS_EQUALS_THAN",
               "CMP_GREATER_THAN", "CMP_LESS_THAN"}

Transition == [elem : Elem, cmp : Comparison, val : Nat, target : States]

(* The map from times to lists of actions is flattened to one sequence,    *)
(* which keeps the order of its entries and of the actions in each.        *)
Action == [time : Nat, elem : Elem \ {stateElem}, val : Nat]

(* What createNew checks of a configuration. *)
SmConfigVerified ==
  /\ stateElem \in Elem
  /\ Type[stateElem] = "DV_T_UINT32"
  /\ States # {}
  /\ Transitions \in [States -> Seq(Transition)]
  /\ Actions \in [States -> Seq(Action)]

(* By their C++ types, states and values fit; the keys of a map are sorted. *)
ASSUME SmConfigAssumption ==
  /\ SmConfigVerified
  /\ States \subseteq Values(stateElem)
  /\ \A s \in States : \A i \in DOMAIN Actions[s] :
       /\ Actions[s][i].val \in Values(Actions[s][i].elem)
       /\ \A j \in DOMAIN Actions[s] :
            i < j => Actions[s][i].time <= Actions[s][j].time

VARIABLES
  mStateCurrent,       \* the current state
  mStateStartTimeNs,   \* when it was entered
  mActionIter          \* index of its next action (of Actions::mActionIter)

smVars == <<mStateCurrent, mStateStartTimeNs, mActionIter>>

-----------------------------------------------------------------------------

(* Transition::checkTransition *)
Holds(d, tr) ==
  \/ tr.cmp = "CMP_EQUALS"              /\ d[tr.elem] = tr.val
  \/ tr.cmp = "CMP_GREATER_EQUALS_THAN" /\ d[tr.elem] >= tr.val
  \/ tr.cmp = "CMP_LESS_EQUALS_THAN"    /\ d[tr.elem] <= tr.val
  \/ tr.cmp = "CMP_GREATER_THAN"        /\ d[tr.elem] > tr.val
  \/ tr.cmp = "CMP_LESS_THAN"           /\ d[tr.elem] < tr.val

Matching(d, s) == {i \in DOMAIN Transitions[s] : Holds(d, Transitions[s][i])}

(* Faulty variants (named Bug...) are not part of the specification; they  *)
(* are the mistakes the properties are known to notice.                    *)

(* Transitions::checkTransitions: the first that holds decides. *)
BugIsTarget(d, s, t) ==
  \E i \in Matching(d, s) :
    /\ \A j \in Matching(d, s) : j <= i
    /\ t = Transitions[s][i].target

IsTarget(d, s, t) ==
  \E i \in Matching(d, s) :
    /\ \A j \in Matching(d, s) : i <= j
    /\ t = Transitions[s][i].target

(* Actions::checkActions: the actions of s from the iterator on that are   *)
(* due after some time in the state.                                       *)
BugDue(s, iter, elapsed) ==
  {k \in iter .. Len(Actions[s]) : Actions[s][k].time < elapsed}

Due(s, iter, elapsed) ==
  {k \in iter .. Len(Actions[s]) : Actions[s][k].time <= elapsed}

(* Action::execute for each of the actions K of s, in order: the last one  *)
(* to write an element determines its value.                               *)
LastWrite(s, K, e) ==
  CHOOSE k \in K : /\ Actions[s][k].elem = e
                   /\ \A j \in K : Actions[s][j].elem = e => j <= k

Executed(d, s, K) ==
  [e \in Elem |-> IF \E k \in K : Actions[s][k].elem = e
                    THEN Actions[s][LastWrite(s, K, e)].val
                    ELSE d[e]]

(* The iterator's place when a state is entered (resetActionIterator).     *)
BugFirstAction(s) ==
  IF mActionIter <= Len(Actions[s]) + 1 THEN mActionIter ELSE Len(Actions[s]) + 1
FirstAction(s) == 1

(* switchState *)
Entered(s) == [dv EXCEPT ![stateElem] = s]

-----------------------------------------------------------------------------

StepInvalidTime(t) ==
  /\ t < mStateStartTimeNs
  /\ ret' = "E_INVALID_TIME"
  /\ UNCHANGED <<dv, smVars>>

StepStay(t) ==
  /\ t >= mStateStartTimeNs
  /\ Matching(dv, mStateCurrent) = {}
  /\ LET due == Due(mStateCurrent, mActionIter, t - mStateStartTimeNs)
     IN  /\ dv' = Executed(dv, mStateCurrent, due)
         /\ mActionIter' = mActionIter + Cardinality(due)
  /\ ret' = "E_SUCCESS"
  /\ UNCHANGED <<mStateCurrent, mStateStartTimeNs>>

(* The actions at time 0 of the target run in the step that enters it; a   *)
(* state may be its own target and is then entered anew.                   *)
StepSwitch(t) ==
  /\ t >= mStateStartTimeNs
  /\ \E s \in States :
       /\ IsTarget(dv, mStateCurrent, s)
       /\ mStateCurrent' = s
       /\ mStateStartTimeNs' = t
       /\ LET due == Due(s, FirstAction(s), 0)
          IN  /\ dv' = Executed(Entered(s), s, due)
              /\ mActionIter' = FirstAction(s) + Cardinality(due)
  /\ ret' = "E_SUCCESS"

StateMachineStep(t) == StepInvalidTime(t) \/ StepStay(t) \/ StepSwitch(t)

(* createNew at time t: the state of the configuration is entered, which   *)
(* executes none of its actions yet.                                       *)
StateMachineInit(t) ==
  /\ mStateCurrent = dv[stateElem]
  /\ mStateStartTimeNs = t
  /\ mActionIter = 1
=============================================================================
