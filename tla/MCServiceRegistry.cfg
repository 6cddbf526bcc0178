\* Two servers that come and go, two goroutines that look for one.
CONSTANTS
  Servers = {1, 2}
  Getters = {g1, g2}
  Timeout = 3
  DefaultTimeout = 3
  Duration = 0
  RefreshAfter = 2
  MaxDelay = 1
  MaxPicks = 2
SPECIFICATION Spec
SYMMETRY Symmetry
INVARIANTS
  ListIsFresh
  PicksAreEven
  
