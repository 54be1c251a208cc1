SPECIFICATION FairSpec

CONSTANTS
  Story = {s1}
  Adr = {}
  Text = {t1}
  MaxRevision = 0
  Fact <- MCFact
  Cites <- MCCites
  Placement <- MCPlacement
  Foreign <- MCForeign
  Invalid = {}
  Note = {"note"}
  Link = {"link"}
  Move = {"move"}
  MaxEdits = 2
  MaxEvents = 1

INVARIANTS NoDanglingStory StormSound
PROPERTIES ForeignKept DraftSettles

CHECK_DEADLOCK FALSE
