SPECIFICATION Spec
CONSTANTS
    Runs = {run1}
    Resumes = {resume1}
    LegacyPayment = legacy
    Lifetime = 2
    Slack = 1
    Confirmations = 1
    MaxAttempts = 1
    MaxTime = 2
    MaxNonce = 2
    None = None
INVARIANTS
    ResumeRecoversRun
CHECK_DEADLOCK FALSE
