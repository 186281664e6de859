SPECIFICATION FairJointSpec
CONSTANTS
  IdLimit = 4
  Window = 2
  CommandLimit = 6
INVARIANTS
  RepliesInOrder
  BeliefAgrees
  NoStrayAnswer
PROPERTIES
  OnlyOvertakingBreaks
  RequestSettled
