SPECIFICATION Spec
CONSTANTS
  None = None
  p1 = p1
  p2 = p2
  p3 = p3
  r1 = r1
  r2 = r2
  Space = " "
  Upper <- UpperCase
  Payments = {p1, p2}
  EndToEndId <- SharedReference
  Amount <- Amounts
  Currency <- AllSGD
  Files <- OneFile
  Runs = {r1}
  Window = 2
  MaxTime = 2
INVARIANTS DifferencesAreReported
CHECK_DEADLOCK FALSE
