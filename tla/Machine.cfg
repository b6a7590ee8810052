CONSTANTS
    WordSize = 16777216
    TopErrors = 4095
    FloatUnit = 64
    FrameSlots = 16
    Signatures <- MCSignatures
    Jobs <- MCJobs
    Starts <- MCStarts
    Excused <- MCExcused
SPECIFICATION EndsSpec
INVARIANTS ConventionIsKept NothingStaleIsRead
    InstructionsMean ValuesCrossCalls RuntimeMeansC TextsAreWritten OutsideIsSettled ParsesAsWritten
