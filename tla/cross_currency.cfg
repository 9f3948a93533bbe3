SPECIFICATION Spec
CONSTANTS
  p1 = p1
  p2 = p2
  a1 = a1
  a2 = a2
  a3 = a3
  fx = fx
  r1 = r1
  r2 = r2
  s1 = s1
  s2 = s2
  None = None
  Payments = {p1}
  Accounts = {a1, a2, fx}
  Suspense = fx
  Requests = {r1, r2}
  Subscriptions = {s1, s2}
  Terms <- FxTerms
  AccountCurrency <- TwoCurrencies
  Rates <- FxRates
  QuotedPairs <- FxPairs
  RateScale = 10
  InitialRate <- NoFxRate
  MaxNumeric = 4
  MaxAttempts = 2
  HomeSlot <- OneHome
  TableSlot <- OneHomeSlots
  EventFilter <- SomeEvents
INVARIANTS TypeOK FxDetailsAreTheBookedOnes BooksBalance OutboxMatchesHistory
PROPERTIES ImplementsBalances SettledFxIsFrozen
SYMMETRY Symmetry
CHECK_DEADLOCK FALSE
CONSTRAINT OneSubscription
