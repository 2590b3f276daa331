SPECIFICATION FairSpec
CONSTANTS
    MaxRequests = 3
    Themes = {anime}
    Casts = {cast1}
    Plans = {plan1}
    None = None
    Joiners = {2}
INVARIANT FailureIsRecorded
CHECK_DEADLOCK FALSE
