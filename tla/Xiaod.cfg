SPECIFICATION Spec
CONSTANTS
    MaxPipes = 2
    MaxUnavailable = 2
    MaxOutages = 1
CHECK_DEADLOCK FALSE
INVARIANT TypeOK SucceededIsTrue OnePipeline
PROPERTY  PauseTakesEffect
