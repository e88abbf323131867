---------------------------- MODULE RocketStates ----------------------------
(***************************************************************************)
(* The State Machine in its node: between two steps, other code changes    *)
(* the elements that its transitions read; each step is given the time the *)
(* node read before, which comes from CLOCK_REALTIME and may move back.    *)
(***************************************************************************)
EXTENDS StateMachine

CONSTANTS
  InputElems,   \* the elements that other code of the node writes
  InitialDv,    \* initial values of the configuration
  MaxTime       \* bound: time

ActionElems == {e \in Elem : \E s \in States : \E i \in DOMAIN Actions[s] :
                               Actions[s][i].elem = e}

(* The elements that actions write are not written by others here; the     *)
(* Control Node loop, where both happen, is modelled in ControlLoop.       *)
ASSUME EnvironmentAssumption ==
  /\ InputElems \subseteq Elem \ (ActionElems \cup {stateElem})
  /\ InitialDv \in DataVectors
  /\ InitialDv[stateElem] \in States
  /\ MaxTime \in Nat

VARIABLES
  phase,     \* what the node's loop does next: "inputs" or "step"
  runs,      \* history: how often each action of the current state was
             \*   executed since the state was entered
  stepped,   \* history: a step has been made, not only createNew
  reached    \* history: the longest time in the current state that any
             \*   step since it was entered has seen

vars == <<dv, ret, smVars, phase, runs, stepped, reached>>

NoRuns(s) == [k \in DOMAIN Actions[s] |-> 0]

Init ==
  /\ dv = InitialDv
  /\ ret = "E_SUCCESS"
  /\ StateMachineInit(0)
  /\ phase = "inputs"
  /\ runs = NoRuns(InitialDv[stateElem])
  /\ reached = 0
  /\ stepped = FALSE

Inputs ==
  /\ phase = "inputs"
  /\ phase' = "step"
  /\ \E f \in [InputElems -> UNION {Values(e) : e \in InputElems}] :
       /\ \A e \in InputElems : f[e] \in Values(e)
       /\ dv' = [e \in Elem |-> IF e \in InputElems THEN f[e] ELSE dv[e]]
  /\ UNCHANGED <<ret, smVars, runs, stepped, reached>>

Count(r, K) == [k \in DOMAIN r |-> IF k \in K THEN r[k] + 1 ELSE r[k]]

Step(t) ==
  /\ phase = "step"
  /\ phase' = "inputs"
  /\ \/ StepInvalidTime(t) /\ UNCHANGED <<runs, stepped, reached>>
     \/ /\ StepStay(t)
        /\ LET elapsed == t - mStateStartTimeNs
           IN  /\ runs' = Count(runs, Due(mStateCurrent, mActionIter, elapsed))
               /\ reached' = IF elapsed > reached THEN elapsed ELSE reached
        /\ stepped' = TRUE
     \/ /\ StepSwitch(t)
        /\ runs' = Count(NoRuns(mStateCurrent'),
                         Due(mStateCurrent', FirstAction(mStateCurrent'), 0))
        /\ reached' = 0
        /\ stepped' = TRUE

Next == Inputs \/ \E t \in 0 .. MaxTime : Step(t)

Spec == Init /\ [][Next]_vars

-----------------------------------------------------------------------------
(* Every variable has its type; the iterator never runs past the end.      *)
TypeOK ==
  /\ dv \in DataVectors
  /\ ret \in Error_t
  /\ mStateCurrent \in States
  /\ mStateStartTimeNs \in 0 .. MaxTime
  /\ mActionIter \in 1 .. Len(Actions[mStateCurrent]) + 1
  /\ phase \in {"inputs", "step"}
  /\ runs \in [DOMAIN Actions[mStateCurrent] -> Nat]
  /\ reached \in 0 .. MaxTime
  /\ stepped \in BOOLEAN

(* The state that ground and the controllers read in the Data Vector is    *)
(* the one the State Machine is in (StateMachine::switchState).            *)
StateElemAgrees == dv[stateElem] = mStateCurrent

(* Since the current state was entered, each of its actions ran exactly    *)
(* once if its time was reached, and not at all if not: no step skips an   *)
(* action, repeats one, or leaves one out because the loop was late, the   *)
(* state was entered before, or the clock moved back.                      *)
ActionsExactlyOnce ==
  \A k \in DOMAIN Actions[mStateCurrent] :
    runs[k] = IF stepped /\ Actions[mStateCurrent][k].time <= reached
              THEN 1 ELSE 0

(* The actions of the current state that ran are in effect: an element     *)
(* they write holds what the latest of them wrote.  In particular no       *)
(* action of a state that was left is executed late.                       *)
ActionsInEffect ==
  \A e \in Elem :
    LET K == {k \in 1 .. mActionIter - 1 : Actions[mStateCurrent][k].elem = e}
    IN  \A k \in K : (\A j \in K : j <= k) =>
                        dv[e] = Actions[mStateCurrent][k].val

(* What an observer of the Data Vector sees of the state changes only      *)
(* along a transition of the configuration whose comparison holds, and     *)
(* before which no other one of the state holds (StateMachine.hpp, "The    *)
(* first transition condition to be met").                                 *)
ObservedMovesAreTransitions ==
  [][dv'[stateElem] # dv[stateElem] =>
       \E i \in DOMAIN Transitions[dv[stateElem]] :
         /\ Transitions[dv[stateElem]][i].target = dv'[stateElem]
         /\ Holds(dv, Transitions[dv[stateElem]][i])
         /\ \A j \in 1 .. i - 1 : ~Holds(dv, Transitions[dv[stateElem]][j])]_vars
=============================================================================
