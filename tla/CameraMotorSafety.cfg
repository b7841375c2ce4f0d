SPECIFICATION Spec
CONSTANTS
  CAMERA_EVENT_DELAY_TIME = 2
  Unreliable = {"direction", "enable", "position"}
  MaxChanges = 3
  MaxFalls = 1
  MaxBlocks = 1
  MaxCrashes = 1
  MaxScreen = 1
INVARIANTS TypeOK LastEventWins Debounced ListenerFollowsRequests
