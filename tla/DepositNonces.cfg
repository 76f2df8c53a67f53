SPECIFICATION Spec
CONSTANTS
    Runs = {run1, run2}
    Resumes = {resume1}
    LegacyPayment = legacy
    Lifetime = 1
    Slack = 1
    Confirmations = 1
    MaxAttempts = 1
    MaxTime = 1
    MaxNonce = 2
    None = None
SYMMETRY RunSymmetry
INVARIANTS
    TypeOK
    DepositMatchesCommitment
    RecordedIntentFunded
PROPERTIES
    ImplementsDeposit
CHECK_DEADLOCK FALSE
