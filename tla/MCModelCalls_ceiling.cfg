SPECIFICATION MCSpec
CONSTANTS
  Process = {blue, green}
  Call = {c1, c2}
  Key = {k1}
  MaxAttempts = 1
  SdkTries = 2
  Ceiling = 1
  Capacity = 1
  MaxSpent = 2
  MaxDays = 1
  Home = blue
  NoProcess = NoProcess
  NoKey = NoKey
  blue = blue
  green = green
  c1 = c1
  c2 = c2
  k1 = k1
CHECK_DEADLOCK FALSE
INVARIANTS OneFittingAnswer
PROPERTIES ShutStaysShut CallsEnd
