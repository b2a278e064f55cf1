SPECIFICATION FairSpec
CONSTANTS
  Circle = 12
  Turn = 2
  rot_step_interval = 3
  ai_step_interval = 7
  Delays = {1, 2, 8}
INVARIANT NewcomersKnowWhereTo
