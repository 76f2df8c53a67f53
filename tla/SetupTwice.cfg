SPECIFICATION Spec
CONSTANTS
    Setups = {setup1, setup2}
    Senders = {sender1, sender2}
    FirstId = 1
    MaxId = 3
    NoSender = NoSender
INVARIANTS
    SecondSetupSucceeds
CHECK_DEADLOCK FALSE
