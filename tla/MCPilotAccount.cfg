CONSTANTS
  Reserve = 2
  Allowance = 13
  RedLine = 5
  AdaptiveCap <- MCAdaptiveCap
  AdaptiveMaxCalls = 7
  PilotCap <- MCPilotCap
  PilotMaxCalls = 5
  MaxAttempts = 2
  PilotCases <- MCPilotCases
  AdaptiveCases <- MCAdaptiveCases
  Uses <- MCUses
  BatchSizes <- MCBatchSizes
  Pin <- MCPin
  FirstRun <- MCFirstRun

SPECIFICATION Spec

INVARIANTS
  SpendingIsCovered

PROPERTIES
  DoubtIsQuiet

CHECK_DEADLOCK FALSE
