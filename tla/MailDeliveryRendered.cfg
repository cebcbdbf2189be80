\* The documented promise about what is mailed, which the code does not keep.
SPECIFICATION Spec
CONSTANT RetryCount = 3
INVARIANT OnlyRenderedMailIsSent
