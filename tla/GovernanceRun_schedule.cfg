SPECIFICATION FairSpec
CONSTANTS
  Schedule = {daily}
  daily = daily
  Manual = Manual
  Refinement = {r1}
  r1 = r1
  Ghost = Ghost
  MaxTime = 2
  Events = {"manual", "fault", "failure", "edit", "stop", "crash"}
  MaxEvents = 1
INVARIANTS
    OneActiveOccurrence
    NoCatchUpBurst

    
