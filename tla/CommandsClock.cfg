SPECIFICATION Spec
CONSTANTS
  plain = plain  bad = bad  Empty = Empty  Keep = Keep  BadStamp = bad
  Procs = {p1}
  MaxId = 4
  AddLimit = 3
  Texts <- MCTexts
  Tuples <- MCTuples
  TagsIn <- MCTagsIn
  Unfindable <- MCNone
  DayHours = 4
  Zone <- MCZone
  Stamps <- MCStamps
  Nows = {7}
  Lines <- StampLines
  Openings <- DayOpenings
PROPERTIES TypedOrWarned
