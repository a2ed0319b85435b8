SPECIFICATION Spec
CONSTANTS
  Upload = {u1, u2}
  RunId = {r1, r2}
  Request = {q1, q2}
  MaxPage = 2
  Ends = {1}
  MaxPagesPerRun = 2
  DefaultPages = 2
  PageCap = 2
  MaxDay = 1
  Omitted = Omitted
  NoRun = NoRun
  NoUpload = NoUpload
SYMMETRY Rows
INVARIANTS BudgetHolds RunsAreSound
PROPERTIES SettledIsFinal
CHECK_DEADLOCK FALSE
