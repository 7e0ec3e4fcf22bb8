SPECIFICATION Spec
CONSTANTS
  Commands <- MCCommands
  Devices <- MCDevices
  Packed <- MCPacked
CHECK_DEADLOCK FALSE
INVARIANTS
  LogsInBounds
  BlocksResolve
  BitmapComplete
  DefaultsSafe
  WrittenByConsent
