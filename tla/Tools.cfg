CONSTANTS
    d1 = d1
    d2 = d2
    Nothing = Nothing
    Draft = {d1, d2}
    Risky = {d1}
    Doubtful = {d2}
    Length <- Lengths
    Notice = 1
    MaxChars = 2
    MaxNews = 1
    OutputLimit = 1
    DrainLimit = 2
    PipeSize = 1
    MaxOutput = 4
    Minimum = 2
    Step = 2
    Maximum = 5
    MaxThread = 6
    MaxBreaks = 2
    Listings <- Channels
    MaxMessage = 3
    Limit = 3
    RestPage = 1
    Attempts = 2
    Tabs <- OpenTabs
SPECIFICATION AnySpec
INVARIANTS AnswersAreWhole SendsAreCleared
PROPERTIES EveryCallEnds
CHECK_DEADLOCK FALSE
