CONSTANTS
    Width = 4
    Fuel = 60
    Programs <- MCPrograms
    Inputs <- MCInputs
SPECIFICATION Spec
INVARIANTS CodeMeansProgram ConstantsHold PassesPreserveBehaviour
CHECK_DEADLOCK FALSE
