\* The parent relation: five events, batches of three, from an empty file
\* and from one that already holds a ring.
SPECIFICATION TreeSpec
CONSTANTS
  plain = plain  tagged = tagged  t1 = t1  bad = bad
  Empty = Empty  Keep = Keep  BadStamp = bad
  MaxId = 5
  MaxBatch = 3
  Texts <- TreeTexts
  NewTexts <- TreeNewTexts
  Tuples <- TreeTuples
  TagsIn <- TreeTagsIn
  Unfindable <- MCNone
  Stamps <- MCStamps
  MetaArgs <- TreeMetaArgs
INVARIANTS WalksExact TreeDrawsEachOnce
PROPERTIES RingsNeverGrow IdsNeverReused
