SPECIFICATION MCSpec
CONSTANTS
  t1 = t1
  t2 = t2
  c1 = c1
  c2 = c2
  n1 = n1
  l1 = l1
  l2 = l2
  l3 = l3
  None = None
  Title <- MCTitle
  Twins <- MCTwins
  Coll <- MCColl
  Name <- MCName
  ListId <- MCListId
  Similar <- MCSimilar
  Service = {"trakt", "tmdb"}
  MaxRuns = 2
  MaxAgain = 1
  MaxEdits = 1
SYMMETRY Symmetric
CHECK_DEADLOCK FALSE
INVARIANTS TypeOK BothSidesEqual OneTmdbListEach
PROPERTIES OnlyCopies BindingKept
