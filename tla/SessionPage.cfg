SPECIFICATION FairSpec
CONSTANTS
  Firsts = {"q1", "q2"}
  Asked = 1
  SlotNumbers = {1, 2}
  MaxFlows = 2
  Scenes <- MCScenes
INVARIANTS BusyIsExact OffersAreTaken WayForward
PROPERTIES WordsMeetTheirSubject BusyEnds
CHECK_DEADLOCK FALSE
