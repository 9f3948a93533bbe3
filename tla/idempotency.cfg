SPECIFICATION FairSpec
CONSTANTS
  None = None
  Keys = {k1, k2}
  Bodies = {b1, b2, b3}
  Acceptable = {b1, b2}
  Insertable = {b1, b3}
  Calls = {c1, c2, c3}
INVARIANTS TypeOK OnePaymentPerKey CompletedMeansCreated  OneOwnerPerKey OrphansExplained
PROPERTIES CallsEnd
