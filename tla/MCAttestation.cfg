SPECIFICATION FairSpec
CONSTANTS
  Validators = {v1, v2, v3, v4}
  Me = v1
  NoVote = NoVote
  retention_blocks = 0
  Buffer = 1
  Ahead = {v4}
  Diverging = {v1, v2}
  MaxHeight = 1
  MaxClears = 1
INVARIANTS MajorityNotHalted MinorityHalts
PROPERTIES EveryBlockIsSent
CHECK_DEADLOCK FALSE
