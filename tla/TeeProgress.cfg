SPECIFICATION Spec
CONSTANTS
    Runs = {run1, run2}
    Machines = {tee1, tee2}
    Commands <- MCCommands
    NoFile = NoFile
    Corrupt = Corrupt
SYMMETRY RunSymmetry
INVARIANTS
    TypeOK
    ProgressTruthful
    FreshChallenge
    FreshRunPromotesItsMachine
CHECK_DEADLOCK FALSE
