SPECIFICATION FairSpec
CONSTANTS
  CAMERA_EVENT_DELAY_TIME = 2
  Unreliable = {}
  MaxChanges = 3
  MaxFalls = 0
  MaxBlocks = 0
  MaxCrashes = 1
  MaxScreen = 0
PROPERTY MotorFollowsCamera
