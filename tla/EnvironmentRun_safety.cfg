SPECIFICATION FairSpec
CONSTANTS
  Run = {r1}
  NoRun = NoRun
  NumStates = 2
  NumActions = 3
  StateOf <- TwoThenOne
  MaxRetries = 1
  MaxQuestions = 2
  MaxCrashes = 1
INVARIANTS
  ActiveLineage
  OutcomesAccounted
  Scheduled
PROPERTIES
  KeepsContract
  FollowsGates
  SettlesWithinLimit
  DispatchSettles
