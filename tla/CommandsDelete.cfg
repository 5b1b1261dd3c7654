SPECIFICATION Spec
CONSTANTS
  plain = plain  bad = bad  Empty = Empty  Keep = Keep  BadStamp = bad
  Procs = {p1, p2}
  MaxId = 4
  AddLimit = 3
  Texts <- MCTexts
  Tuples <- MCTuples
  TagsIn <- MCTagsIn
  Unfindable <- MCNone
  DayHours = 4
  Zone <- MCZone
  Stamps <- MCStamps
  Nows = {3}
  Lines <- RaceLines
  Openings <- TreeOpenings
PROPERTIES ChildrenNeedRecursive
