\* Text, metadata and the search index: two events.
SPECIFICATION SettledSpec
CONSTANTS
  plain = plain  tagged = tagged  t1 = t1  bad = bad
  Empty = Empty  Keep = Keep  BadStamp = bad
  MaxId = 2
  MaxBatch = 1
  Texts <- MCTexts
  NewTexts <- MCTexts
  Tuples <- MCTuples
  TagsIn <- MCTagsIn
  Unfindable <- MCUnfindable
  Stamps <- MCStamps
  MetaArgs <- MCMetaArgs
INVARIANTS TypeOK Acyclic TablesAgree AtMostOneAuthor BodyRowsMentioned
PROPERTIES MintsFindable AuthorNeverLost EditsRespectProvenance
