\* The value of RetryService: three retries, four attempts.
SPECIFICATION Spec
CONSTANT RetryCount = 3
INVARIANT TypeOK
INVARIANT CopiesAreExplained
INVARIANT RaisedAfterAllRetries
PROPERTY KeepsHandoffPromise
