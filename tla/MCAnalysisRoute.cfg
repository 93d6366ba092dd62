CONSTANTS
  Objects = {"o1", "o2"}
  Addresses = {"c1", "c2"}
  WindowLength = 2
  DayLength = 3
  ClientLimit = 1
  DailyLimit = 3
  ConcurrentLimit = 2
  Requests <- MCRequests
  Loads <- MCLoads
  LastTime = 4

SPECIFICATION Spec

INVARIANTS
  RequestsAreBounded
  ReportsAreEarned

PROPERTIES
  PermitsReturn

CHECK_DEADLOCK FALSE
