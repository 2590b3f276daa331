SPECIFICATION FairSpec
CONSTANTS
    MaxRequests = 3
    Themes = {anime}
    Casts = {cast1}
    Plans = {plan1}
    None = None
    Joiners = {2}
INVARIANTS TypeOK ClipIsStored OutcomeStands FilmMatchesSession
PROPERTIES ConversationKept Recoverable
CHECK_DEADLOCK FALSE
