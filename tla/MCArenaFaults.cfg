SPECIFICATION FairSpec
CONSTANTS
    Tournaments = {1}
    Pairs = {1, 2}
    Match <- OneMatch
    Sprt = {}
    WaldDecision <- NoWald
    Pids = {1, 2, 3, 4}
    SurviveKill = TRUE
    SurviveCrash = TRUE
    MaxFaults = 2
INVARIANTS
    TypeOK
    CompletedHasNoCancel
    TallyMatchesPairs
    RunningPairHasLiveMatch
    LiveMatchHasWork
    CompletedIsWhole
PROPERTIES
    ResultsAreFinal
    RetriesStartFresh
    ImplementsLedger
    QueuedMatchSettles
    StopRequestServed
