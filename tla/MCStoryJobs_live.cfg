SPECIFICATION MCFairSpec
CONSTANTS
  Process = {blue}
  Colours = {blue}
  Story = {s1, s2}
  Job = {j1, j2}
  Request = {q1, q2}
  Scenes = {1}
  DailyCap = 1
  MaxDay = 1
  SlowRuns = TRUE
  LostAcks = TRUE
  Unreadable = Unreadable
  NoJob = NoJob
  NoStory = NoStory
  FirstStory = s1
  FirstJob = j1
  s1 = s1
  s2 = s2
  j1 = j1
  j2 = j2
INVARIANTS WithinDailyCap
PROPERTIES EveryJobSettles
