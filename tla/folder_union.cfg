SPECIFICATION MCSpec
CONSTANTS
  t1 = t1
  t2 = t2
  n1 = n1
  n2 = n2
  n3 = n3
  NoTitle = NoTitle
  Title <- MCTitle
  Name <- MCName
  Service = {"kinopub", "rezka"}
  Similar <- Alike
  Twins <- Twin
  Hidden = {n3}
  Ignored = {}
  MaxEdits = 1
CHECK_DEADLOCK FALSE
INVARIANTS TypeOK BothSidesEqual
PROPERTIES OnlyCopies RunEnds
