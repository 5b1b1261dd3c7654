\* One process runs the verbs, on trees and on a file with a ring of parents;
\* exports and hand-written batches are imported in between.
SPECIFICATION VerbsSpec
CONSTANTS
  plain = plain  tagged = tagged  bad = bad
  Empty = Empty  Keep = Keep  BadStamp = bad
  Procs = {p1}
  MaxId = 7
  AddLimit = 3
  MaxExport = 3
  Texts <- MCTexts
  Tuples <- MCTuples
  TagsIn <- MCTagsIn
  Unfindable <- MCNone
  DayHours = 4
  Zone <- MCZone
  Stamps <- MCStamps
  Nows = {3}
  Lines <- MCLines
  Meanwhile <- MCMeanwhile
  Openings <- MCOpenings
  Journals <- MCJournals
  ByHand <- MCByHand
  FlagSets <- MCFlagSets
PROPERTIES
  ConsentRequired ChildrenNeedRecursive DoneAsNamed DetachMends
  TypedOrWarned OtherHalfKept
  ParentsAsNamed  CopiesKeepMetadata
CHECK_DEADLOCK FALSE
