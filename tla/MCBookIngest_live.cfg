SPECIFICATION MCFairSpec
CONSTANTS
  Process = {blue}
  Colours = {blue}
  Title = {t1}
  UploadId = {u1, u2}
  Raw = {r1, r2}
  MaxPage = 2
  DailyCap = 2
  SlowRuns = FALSE
  Unreadable = Unreadable
  NoId = NoId
  NoRaw = NoRaw
  NoTitle = NoTitle
  FirstRaw = r1
  FirstId = u1
  r1 = r1
  r2 = r2
  u1 = u1
  u2 = u2
INVARIANTS OneCompleteBook
PROPERTIES EveryUploadSettles
