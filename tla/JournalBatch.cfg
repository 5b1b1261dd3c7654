\* Batches of two whose ParentIDs may name an id not allocated yet.
SPECIFICATION Spec
CONSTANTS
  plain = plain  tagged = tagged  t1 = t1  bad = bad
  Empty = Empty  Keep = Keep  BadStamp = bad
  MaxId = 2
  MaxBatch = 2
  Texts <- TreeTexts
  NewTexts <- TreeNewTexts
  Tuples <- TreeTuples
  TagsIn <- TreeTagsIn
  Unfindable <- MCNone
  Stamps <- MCStamps
  MetaArgs <- TreeMetaArgs
INVARIANT Acyclic
