SPECIFICATION FairSpec
CONSTANTS
  CAMERA_EVENT_DELAY_TIME = 2
  Unreliable = {}
  MaxChanges = 1
  MaxFalls = 1
  MaxBlocks = 0
  MaxCrashes = 0
  MaxScreen = 0
PROPERTY NoRiseAfterFall
