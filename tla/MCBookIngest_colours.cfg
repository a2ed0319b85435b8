SPECIFICATION Spec
CONSTANTS
  Process = {blue, green}
  Colours = {blue, green, Unreadable}
  Title = {t1}
  UploadId = {u1}
  Raw = {r1, r2}
  MaxPage = 1
  DailyCap = 2
  SlowRuns = TRUE
  Unreadable = Unreadable
  NoId = NoId
  NoRaw = NoRaw
  NoTitle = NoTitle
  FirstRaw = r1
  FirstId = u1
  r1 = r1
  r2 = r2
  u1 = u1
SYMMETRY FilesAndColours
INVARIANTS BytesOnDisk OneRunPerRaw
PROPERTIES FinalStatesStay
