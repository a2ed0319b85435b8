SPECIFICATION MCSpec
CONSTANTS
  TopikI = {e1}
  TopikII = {e1, e2}
  Sitting = {s1, s2}
  Attempt = {1, 2, 3}
  Item = {i1}
  Choice = {x, y}
  Mock = {1, 2}
  Taker = {s1, s2}
  MaxWire = 2
  SlowSaves = FALSE
  NoPaper = NoPaper
  NoSitting = NoSitting
  NoChoice = NoChoice
  NoMock = NoMock
  FirstExam = e1
  FirstChoice = x
  e1 = e1
  e2 = e2
  s1 = s1
  s2 = s2
  i1 = i1
  x = x
  y = y
SYMMETRY Symmetries
CHECK_DEADLOCK FALSE
PROPERTIES OtherPapersStay
