CONSTANT IdLimit = 7
SPECIFICATION FairSpec
INVARIANTS
  EveryCommandAnswered
  CleanExitReleases
PROPERTIES
  PoisonNeverAnswers
  CallbackIdsFresh
  Promise
  WedgedOnlyRefuses
  HangUpEndsProcess
  CommandSettled
