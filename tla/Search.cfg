SPECIFICATION Spec
CONSTANTS
  MaxId = 4
  Texts <- MCTexts
  Empty = ""
  Tuples <- MCTuples
  TagsIn <- MCTagsIn
  Unfindable <- MCUnfindable
  Stamps <- MCStamps
  BadStamp = 99
  Keep = keep
  DayHours = 6
  Zone <- MCZone
  BatchSize = 2
  Now = 11
  MaxWrites = 1
  Chars <- MCChars
  Jobs <- TypedJobs
  Stirred <- NoJobs
  Cap = 2
  PipeCap = 1
  Openings <- MCOpenings
CHECK_DEADLOCK FALSE
INVARIANT StorableIsFound
