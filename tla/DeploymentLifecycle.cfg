SPECIFICATION Spec
CONSTANTS
    LocalProcess = FALSE
    FirstId = 1
    MaxSender = 2
    MaxId = 2
    MaxKey = 2
    MaxCode = 2
    MaxWipe = 1
    Invocations <- MCInvocations
    Absent = Absent
    Malformed = Malformed
    NoFile = NoFile
    NoSender = NoSender
    None = None
INVARIANTS
    TypeOK
    CompleteSetupServes
    EvidenceSound
    ReportVerdict
CHECK_DEADLOCK FALSE
