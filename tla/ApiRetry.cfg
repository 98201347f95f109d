SPECIFICATION ApiSpec
CONSTANTS
    Documents <- MCDocuments
    MaxRetries = 2
    InitialDelay = 1
    Multiplier = 4
    MaxDelay = 3
    Jitter = 25
    RetryAfters = {0, 9}
    MaxBuffer = 48
    CutEvery = 8
CHECK_DEADLOCK FALSE
PROPERTIES
    TransientIsRetried
