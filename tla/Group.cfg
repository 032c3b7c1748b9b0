SPECIFICATION FairSpec
CONSTANTS
  s1 = s1
  s2 = s2
  Sessions = {s1}
  MaxGroups = 2
  MaxPins = 2
  MaxArrivals = 2
  MaxFaults = 2
INVARIANTS TypeOK ServicesFollowGroup CredentialsFollowGroup RegistrarArmed RoomOffered
PROPERTIES CastdComesUp GroupServed
CHECK_DEADLOCK FALSE
