SPECIFICATION Spec
CONSTANTS
  None = None
  p1 = p1
  p2 = p2
  p3 = p3
  r1 = r1
  r2 = r2
  Space = " "
  Upper <- UpperCase
  Payments = {p1, p2, p3}
  EndToEndId <- VariousReferences
  Amount <- Amounts
  Currency <- AllSGD
  Files <- VariousFiles
  Runs = {r1, r2}
  Window = 1
  MaxTime = 2
SYMMETRY Symmetry
CONSTRAINT FewAtATime
INVARIANTS DifferencesAreReported BreaksAreReal AnnouncedReconciles CountedOnce WholeInWindowIsListed
CHECK_DEADLOCK FALSE
