SPECIFICATION Spec
CONSTANTS
    Runs = {run1}
    Resumes = {resume1}
    LegacyPayment = legacy
    Lifetime = 1
    Slack = 1
    Confirmations = 3
    MaxAttempts = 2
    MaxTime = 1
    MaxNonce = 2
    None = None
PROPERTIES
    ScriptsTerminate
    ScriptsAdvance
CHECK_DEADLOCK FALSE
