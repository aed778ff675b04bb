SPECIFICATION Spec
CONSTANTS
  Files = {f1}
  BuiltIn = BuiltIn
  NONE = NONE
  MaxInFlight = 2
  ReplayIds = {1, 2, 3}
INVARIANT PanelsConsistent
PROPERTY ReplacedProfileFencesReplay
CHECK_DEADLOCK FALSE
