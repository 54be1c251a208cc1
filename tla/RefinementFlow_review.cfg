SPECIFICATION Spec
CONSTANTS
  Feedback = {f1, f2}
  f1 = f1
  f2 = f2
  Refinement = {r1, r2, r3}
  r1 = r1
  r2 = r2
  r3 = r3
  Critic = {c1}
  c1 = c1
  NoFeedback = NoFeedback
  NoCritic = NoCritic
  NoRefinement = NoRefinement
  MaxRuns = 3
  MaxStarts = 1
  MaxCrashes = 1
SYMMETRY Symmetry
INVARIANTS
  FeedbackAccounted
  ResultsRecorded
PROPERTIES
  KeepsReviewContract
CHECK_DEADLOCK FALSE
