SPECIFICATION Spec
CONSTANTS
  MaxRetries = 2
  RetryBackoff = 1
  Statuses <- MCStatuses
INVARIANT NetworkOnlyIfNoReply
