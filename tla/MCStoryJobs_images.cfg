SPECIFICATION Spec
CONSTANTS
  Process = {blue, green}
  Colours = {blue, green, Unreadable}
  Story = {s1, s2}
  Job = {j1, j2}
  Request = {q1, q2}
  Scenes = {2, 3}
  DailyCap = 9
  MaxDay = 0
  SlowRuns = TRUE
  LostAcks = FALSE
  Unreadable = Unreadable
  NoJob = NoJob
  NoStory = NoStory
  FirstStory = s1
  FirstJob = j1
  s1 = s1
  s2 = s2
  j1 = j1
  j2 = j2
SYMMETRY RowsAndColours
INVARIANTS OneJobOneRun ShownIsBacked
PROPERTIES KeepsPromise
