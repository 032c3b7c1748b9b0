SPECIFICATION Spec
CONSTANTS
  s1 = s1
  s2 = s2
  Sessions = {s1}
  MaxGroups = 2
  MaxPins = 2
  MaxArrivals = 2
  MaxFaults = 2
INVARIANT SessionDrivesBack
CHECK_DEADLOCK FALSE
