SPECIFICATION FairSpec
CONSTANTS
  d1 = d1
  d2 = d2
  s1 = s1
  s2 = s2
  Deliveries = {d1, d2}
  Subscriptions = {s1, s2}
  SubscriptionOf <- OneEach
  Deactivatable = {s1}
  Limit = 2
  MaxAttempts = 3
  BaseTicks = 1
  MaxTicks = 2
  MaxLag = 1
  MaxAborts = 1
INVARIANTS TypeOK BatchIsFresh AttemptsAccounted AcceptancesAccounted
PROPERTIES FinalIsFinal NotifiedOrDeadLettered
