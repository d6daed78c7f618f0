SPECIFICATION Spec
CONSTANTS
    RetryLimit <- NoRetryLimit
    RetryErrLimit = 2
    MaxOffset = 2
INVARIANT RetryErrLimitHolds
