\* Two sensors, three requests (a complete round and half of the next), at most
\* two pieces on the line: an answer may arrive during a later request.
SPECIFICATION FairSpec
CONSTANTS
    Addresses <- TwoSensors
    MaxRequests = 3
    MaxLine = 2
    None = None
    Failed = Failed
INVARIANTS OwnReading OldBytesDiscarded StatisticsAgree StatusTruthful
PROPERTIES StopReturns
CHECK_DEADLOCK FALSE
