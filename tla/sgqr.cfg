SPECIFICATION Spec
CONSTANTS
  None = None
  Accounts <- SomeAccounts
  Cities <- SomeCities
  Amounts <- SomeAmounts
  Misread = {48, 56, 65}
INVARIANTS ReadsBack MisreadingIsDetected ChecksumIsRemainder
