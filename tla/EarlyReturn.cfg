CONSTANTS
    Width = 4
    Fuel = 60
    Programs <- EarlyReturns
    Inputs <- MCInputs
SPECIFICATION Spec
INVARIANTS ConstantsHold
CHECK_DEADLOCK FALSE
