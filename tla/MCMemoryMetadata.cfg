SPECIFICATION Spec
CONSTANTS
  a = a  b = b  c = c  d = d  someQuery = someQuery
  Items <- OneEntry
  Windows = {2}
  Queries = {someQuery}
  Similarity <- SimilarityTable
  Appeal <- AppealTable
  MaxItems = 4
  Nothing = Nothing
INVARIANT
  MetadataComesBack
