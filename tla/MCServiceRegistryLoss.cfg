\* One heartbeat may be lost.
CONSTANTS
  Servers = {1}
  Getters = {}
  Timeout = 3
  DefaultTimeout = 3
  Duration = 0
  RefreshAfter = 2
  MaxDelay = 1
  MaxPicks = 1
SPECIFICATION FairSpec
PROPERTY RunningIsListed
