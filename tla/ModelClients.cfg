SPECIFICATION ClientsSpec
CONSTANTS
    Payloads <- MCPayloads
    Deployments <- MCDeployments
    EvaluatorMax = {256, 400, 12288}
    BenchmarkMax = {128}
    Options <- MCOptions
    Wires <- MCWires
    MaxInvocations = 2
    Settings <- MCSettings
    Responses <- MCResponses
    MaxTokens = 2
    MaxEventBytes = 4
    MaxResponseBytes = 12
\* Programs and clients may have nothing left to do.
CHECK_DEADLOCK FALSE
INVARIANTS
    ModeIsConsistent
    ClientChoicesKept
    GateIsSound
    MeasuresWhatWasSaid
    WarnsExactlyOnDrift
