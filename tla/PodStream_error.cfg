\* The worker stays in kError when the crashes are long past.
SPECIFICATION FairSpec
CONSTANTS
    Pids = {p1}
    NoPid = NoPid
    ConnectDebounce = 1
    DisconnectDebounce = 1
    MaxCrashCount = 1
    MaxBackoffLevel = 1
    MaxWaitAttempts = 1
    MaxInits = 1
PROPERTIES ErrorRecovers
