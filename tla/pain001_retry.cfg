SPECIFICATION Spec
CONSTANTS
  NaN = NaN
  Malformed = Malformed
  Lost = Lost
  None = None
  MaxRequests = 2
  Numbers = {"d", "c", "x"}
  Currencies = {"SGD", "sgd", "USD"}
  Upper <- UpperCase
  Seeded <- BothSeeded
  Creations <- SomeCreations
  Messages <- OneMessage
  Capacity = 2
  MaxNumeric = 9
INVARIANTS OnePaymentPerMessage
CHECK_DEADLOCK FALSE
