SPECIFICATION Spec
CONSTANTS
  Firsts = {"q1"}
  Asked = 1
  SlotNumbers = {1}
  MaxFlows = 1
  Scenes <- MCScenes
INVARIANT OfferedCorrectionIsTaken
CHECK_DEADLOCK FALSE
