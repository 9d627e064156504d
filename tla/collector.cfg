CONSTANTS
    i1 = i1  i2 = i2
    Account = {i1, i2}
    NoAccount = NoAccount
    Bodies <- Answers
    None = None
    NoBody = NoBody
    MaxTok <- Renewals
    MaxTime = 2
    Configs = {{"api", "command"}, {"session"}}
    Opaque = {i2}
SPECIFICATION FairSpec
INVARIANTS MeasuredOwn SessionOwn TokenKept FiguresFaithful
PROPERTIES RefreshEnds Recovers
