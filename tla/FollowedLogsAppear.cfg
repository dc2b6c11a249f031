SPECIFICATION StreamSpec
CONSTANTS
  MaxOutput = 2
  MaxRead = 2
  Capacity = 6
CHECK_DEADLOCK FALSE
PROPERTY FollowedOutputAppears
