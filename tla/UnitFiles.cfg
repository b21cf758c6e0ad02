SPECIFICATION Spec
CHECK_DEADLOCK FALSE
CONSTANTS
    Procs = {"p", "q"}
    Symbols <- MCSymbols
    Inputs <- MCInputs
    Words <- MCWords
    sWords = {"simple", "s"}
    tWords = {"true"}
    Word = 4096
    SpanUnits <- MCSpanUnits
    TS_SEC = 12
    SectionSize = 4
    KeySize = 4
    ValueSize = 9
    Name = "foo"
    TypeNames <- MCTypes
    KillModes <- MCKillModes
    RestartPolicies <- MCPolicies
INVARIANTS
    ParseMeans
    SplitMeans
    SpanMeans
    OutputWhole
    RoundTrip
    ConvertTruth
