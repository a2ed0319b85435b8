SPECIFICATION MCSpec
CONSTANTS
  Word = {w1}
  Pattern = {p1}
  Hanja = {h1}
  CardId = {c1, c2}
  Device = {d1, d2}
  Rating = {e1, e2}
  Attempt = {a1, a2}
  Request = {q1, q2}
  MaxVersion = 3
  Grades = {"again", "hard", "good"}
  NoCard = NoCard
  NoDevice = NoDevice
  NoTarget = NoTarget
  NoAttempt = NoAttempt
  w1 = w1
  h1 = h1
  p1 = p1
  c1 = c1
  c2 = c2
  d1 = d1
  d2 = d2
  e1 = e1
  e2 = e2
  a1 = a1
  a2 = a2
  q1 = q1
  q2 = q2
SYMMETRY Symmetries
CHECK_DEADLOCK FALSE
INVARIANTS OneHistory ScheduleMatchesHistory RatingsCountOnce
PROPERTIES RemovedIsFrozen IntervalNeverShrinks
