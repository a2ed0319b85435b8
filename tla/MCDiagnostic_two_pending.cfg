SPECIFICATION Spec
CONSTANTS
  Target = 3
  Core = {1, 3}
  Writing = {3}
  Request = {1, 2, 3}
  NoRequest = NoRequest
CHECK_DEADLOCK FALSE
INVARIANTS OneItemInFlight
