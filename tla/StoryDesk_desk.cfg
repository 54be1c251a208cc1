SPECIFICATION DeskFairSpec

CONSTANTS
  Story = {s1, s2}
  Adr = {a1}
  Text = {t1, t2}
  MaxRevision = 1
  Fact = {}
  Cites <- MCCites
  Placement = {}
  Keep = 2
  Replay = 1
  MaxDrafts = 1
  MaxSteps = 3

INVARIANTS NoDanglingAdr DeskSound
PROPERTIES PageCatchesUp

CHECK_DEADLOCK FALSE
