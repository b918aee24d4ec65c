SPECIFICATION FairSpec
CONSTANTS
    Programs <- AllPrograms
    Fuel = 12
CONSTRAINT CompiledOrParsed
INVARIANTS ParsedAsWritten ComputesMeaning
PROPERTY Finishes
CHECK_DEADLOCK FALSE
