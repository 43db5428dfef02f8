SPECIFICATION ToolsSpec
CONSTANTS
    a = a
    b = b
    NoId = NoId
    MaxToolRounds = 2
    MaxToolCalls = 4
    ToolParallelism = 2
    MaxChars = 1
    MaxSaid = 2
    RawCalls <- MCRawCalls
    Urls <- MCUrls
    Hosts = {"a", "b"}
    Public = {"p1", "p2"}
    Answers <- MCAnswers
    Calls <- MCCalls
    Results <- MCResults
    MaxBytes = 1
    Rebinds = 2
INVARIANTS
    WorkBounded
    RequestsWellPaired
    PreviewIsAnswer
    ToolsEndWithChat
    ContactsWereChecked
    CitesWhatItRead
PROPERTIES
    LoopTerminates
