SPECIFICATION FairSpec
CONSTANTS
  NaN = NaN
  Malformed = Malformed
  Lost = Lost
  None = None
  MaxRequests = 3
  Numbers = {"d", "c", "x"}
  Currencies = {"SGD", "sgd", "USD"}
  Upper <- UpperCase
  Seeded <- OneSeeded
  Creations <- SomeCreations
  Messages <- SomeMessages
  Capacity = 2
  MaxNumeric = 9
INVARIANTS TypeOK AnswersMatchEffects PaymentsAreValid ConfirmedAccountsAreFound PoolStallsOnlyOnPain001
PROPERTIES EveryRequestEnds
CHECK_DEADLOCK FALSE
