SPECIFICATION Spec
CONSTANTS
    Characters = {ann, toon, other}
    RealPeople = {ann}
    Foreign = {other}
    NoOne = NoOne
    Roles <- MCRoles
    VoiceOf <- MCVoiceOf
    Speakers = {"azure_speech", "elevenlabs"}
    Picks = {"professional_male"}
    MaxCast = 1
    DraftSeconds = {1, 7, 12}
    SpeechSeconds = {1, 25}
    MaxDraft = 1
    MaxScenes = 2
    MinSceneSeconds = 2
    MaxSceneSeconds = 10
    MaxTotalSeconds = 15
    MaxCost = 2000
    MaxIterations = 5
    Scores = {0, 1, 2}
    RefineSeconds = {2, 7, 20}
INVARIANT VoiceAsCast
CHECK_DEADLOCK FALSE
