SPECIFICATION Spec
CONSTANTS
  a = a  b = b  c = c  d = d  someQuery = someQuery
  Items <- Mixed
  Windows = {0, 2, 3}
  Queries = {someQuery}
  Similarity <- SimilarityTable
  Appeal <- AppealTable
  MaxItems = 3
  Nothing = Nothing
INVARIANTS
  TypeOK
  Aligned
  FoundIsBest
  AddRestoresWindow
  SimpleItemsComeBack
