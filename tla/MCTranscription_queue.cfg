SPECIFICATION FairSpec
CONSTANTS
  Worker = {w1, w2}
  Upload = {u1, u2}
  Corpus = {c1}
  MaxJobs = 2
  MaxCrash = 1
  DailyCap = 1
  Swallows = TRUE
  NoJob = NoJob
  NoTrack = NoTrack
  w1 = w1
  w2 = w2
  u1 = u1
  u2 = u2
  c1 = c1
CHECK_DEADLOCK FALSE
INVARIANTS TranscriptIsBacked CapSurvivesDeletion
PROPERTIES JobsGoForward TranscriptIsKept JobsEnd
