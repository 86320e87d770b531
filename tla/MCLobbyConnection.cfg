CONSTANTS
  Sockets = {s1, s2}
  Interval <- MCInterval
  Limit <- MCLimit
  JoinLimit = 1
  MaxFaults = 1
  MaxQuits = 1
SPECIFICATION FairSpec
INVARIANTS
  HealthyStays
  MembersHaveSeats
  SeatsAreFreed
PROPERTIES
  RejoinWorks
