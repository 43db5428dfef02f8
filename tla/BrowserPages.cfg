SPECIFICATION Pages
CONSTANTS
    Credentials = {k1, k2}
    None = None
    MaxPrompt = 1
    MaxMessage = 2
    MaxMessages = 3
    MaxChars = 3
    MaxBytes = 10
    MaxStored = 3
    ServerMessage = 2
    ServerMessages = 3
    ServerChars = 3
    ServerBytes = 11
    Widths <- MCWidths
    Overhead = 1
    MaxAnswer = 3
    MaxThought = 3
    MaxTurns = 3
INVARIANTS
    RefusedOnlyIfTorn
    ContextHasNoGap
    OnlyThisConversation
    ListIsCurrent
PROPERTY
    TurnIsAllOrNothing
