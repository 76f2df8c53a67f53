SPECIFICATION Spec
CONSTANTS
    Runs = {run1, run2}
    Machines = {tee1, tee2}
    Commands <- MCFullCommands
    NoFile = NoFile
    Corrupt = Corrupt
INVARIANTS
    ReportedMachineInProduction
CHECK_DEADLOCK FALSE
