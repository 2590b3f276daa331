SPECIFICATION FairSpec
CONSTANTS
    Requests = {r1, r2}
    Last = 3
    Configured = {1, 2, 3}
    Clones = {3}
    Kinds = {"script", "raw", "speech", "cloned"}
    Threshold = 2
INVARIANTS TypeOK WasteIsBounded FallbackIsExhaustive
PROPERTIES OpenCircuitDrains RequestEnds PrimaryRecovers
