SPECIFICATION Spec
CONSTANTS
    Setups = {setup1, setup2, setup3}
    Senders = {sender1, sender2}
    FirstId = 1
    MaxId = 3
    NoSender = NoSender
INVARIANTS
    TypeOK
    ReturnedExtensionUsable
CHECK_DEADLOCK FALSE
