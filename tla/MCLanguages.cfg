SPECIFICATION AllSpec
CONSTANTS
    Values = {0, 1}
    Zero = 0
    Size = 5
    First = 1
    Lens <- MCLens
    PT = 2
    PV = 1
    IntMax = 4
    Passes = 1
    Compared = {"x", "y", "n", "s", "tm.ACC", "tm.DN", "ct.ACC"}
    BlockInstances = {"t", "c"}
    MaxStatements = 2
    DrawnInputs = {"a", "b"}
    MaxScans = 3
    PrintedUnits <- MCUnits
    DamagedUnits <- MCDamaged
    WrittenTexts <- MCTexts
    Units <- Loaded
    MaxRuns = 2
    Bits <- MCBits
    ExprVariables <- MCVariables
    ExprLiterals <- MCLiterals
    AnyArgument = FALSE
INVARIANTS
    ExpressionsExact
    ControlExact
    InitialValues
    CallsExact
    LadderExact
    TranslationExact
    FlowExact
    ModelExact
    PrintedParses
    ContractKept
PROPERTIES
    ImplementsStore
    StackExact
CHECK_DEADLOCK FALSE
