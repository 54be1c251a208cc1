SPECIFICATION Spec
CONSTANTS
  Schedule = {daily, weekly}
  daily = daily
  weekly = weekly
  Manual = Manual
  Refinement = {r1}
  r1 = r1
  Ghost = Ghost
  MaxTime = 1
  Events = {"fault", "failure", "stop", "crash"}
  MaxEvents = 2
SYMMETRY Symmetry
INVARIANTS
    AgentsAccounted
    CompletionEarned
PROPERTIES
    KeepsGovernanceContract
