SPECIFICATION Spec
CONSTANTS
    Action <- TwoActions
    Skill <- OneSkill
    Text <- TwoTexts
    LongText <- Long
    Start <- OneStart
    FirstAction <- First
    MaxEdits = 1
    MaxCommits = 1
    MaxFaults = 0
    MaxCrashes = 0
INVARIANTS
    ActiveRunHasWorktree
CHECK_DEADLOCK FALSE
