\* "database is locked", and who holds the lock then.
SPECIFICATION FairSpec
CONSTANTS
  plain = plain  tagged = tagged  t1 = t1  bad = bad
  Empty = Empty  Keep = Keep  BadStamp = bad
  Nobody = Nobody
  Procs = {p1, p2}
  MaxId = 2
  MaxBatch = 1
  Texts <- MCTexts
  NewTexts <- MCNewTexts
  Tuples <- MCTuples
  TagsIn <- MCTagsIn
  Unfindable <- MCNone
  Stamps <- MCStamps
  MetaArgs <- MCMetaArgs
  Requests <- MCRequests
PROPERTIES BusyOnlyWhenLocked
