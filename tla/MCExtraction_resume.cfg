SPECIFICATION Spec
CONSTANTS
  Upload = {u1}
  RunId = {r1, r2}
  Request = {q1}
  MaxPage = 2
  Ends = {}
  MaxPagesPerRun = 2
  DefaultPages = 2
  PageCap = 4
  MaxDay = 0
  Omitted = Omitted
  NoRun = NoRun
  NoUpload = NoUpload
SYMMETRY Rows
CHECK_DEADLOCK FALSE
INVARIANTS ResumeSkipsNoPage
