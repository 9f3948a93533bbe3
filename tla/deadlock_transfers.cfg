SPECIFICATION Spec
CONSTANTS
  p1 = p1
  p2 = p2
  a1 = a1
  a2 = a2
  a3 = a3
  fx = fx
  r1 = r1
  r2 = r2
  s1 = s1
  s2 = s2
  None = None
  Payments = {p1, p2}
  Accounts = {a1, a3}
  Suspense = a1
  Requests = {r1, r2}
  Subscriptions = {}
  Terms <- OppositeTerms
  AccountCurrency <- OneCurrency
  Rates <- NoRates
  QuotedPairs = {}
  RateScale = 10
  InitialRate <- NoInitialRate
  MaxNumeric = 4
  MaxAttempts = 2
  HomeSlot <- PairHomes
  TableSlot <- PairSlots
  EventFilter <- NoFilter
INVARIANTS NoDeadlock
CHECK_DEADLOCK FALSE
