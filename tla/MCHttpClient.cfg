SPECIFICATION Spec
CONSTANTS
  MaxRetries = 3
  RetryBackoff = 5
  Statuses <- MCStatuses
INVARIANTS
  TypeOK
  ReturnedResponseIsWhole
  RetryPolicy
PROPERTIES
  CallReturns
  RefinesHttpCall
