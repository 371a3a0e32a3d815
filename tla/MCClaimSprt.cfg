SPECIFICATION Spec
CONSTANTS
    Tournaments = {1}
    Pairs = {1, 2}
    Match <- OneMatch
    Sprt = {1}
    WaldDecision <- AcceptedAtOnce
    Pids = {1, 2, 3}
    SurviveKill = FALSE
    SurviveCrash = FALSE
    MaxFaults = 1
INVARIANT SprtStopsAtBoundary
