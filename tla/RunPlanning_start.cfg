SPECIFICATION Spec
CONSTANTS
    Action <- TwoActions
    Skill <- OneSkill
    Text <- TwoTexts
    LongText <- Long
    Start <- OneStart
    FirstAction <- First
    MaxEdits = 2
    MaxCommits = 1
    MaxFaults = 1
    MaxCrashes = 1
INVARIANTS
    ProjectWhole
    SnapshotCommitted
    PlanningSound
PROPERTIES
    LockedWhileActive
CHECK_DEADLOCK FALSE
