\* Three validators, one height, one view timeout and one crash.
SPECIFICATION FairSpec
CONSTANTS
  num_validators = 3
  fault_tolerance = 1
  vote_history = 0
  Loopback = TRUE
  MaxHeight = 1
  MaxTimeouts = 1
  MaxCrashes = 1
CHECK_DEADLOCK FALSE
INVARIANT
  ForksTakeDoubleVotes
PROPERTY
  ProposedIsCommitted
