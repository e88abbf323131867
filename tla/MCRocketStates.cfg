SPECIFICATION Spec
CONSTANTS
  stateElem = 1
  Elem <- MCElem
  Type <- MCType
  Modulus <- MCModulus
  States <- MCStates
  Transitions <- MCTransitions
  Actions <- MCActions
  InputElems = {2, 3}
  InitialDv <- MCInitialDv
  MaxTime = 5
INVARIANTS
  ActionsExactlyOnce
  ActionsInEffect
PROPERTIES
  ObservedMovesAreTransitions
