SPECIFICATION Spec
CONSTANTS
    Turns = {t1, t2}
    Earlier = earlier
    KindCount = 2
    Limit = 3
    Window = 2
    MaxActs = 2
    Emails = {mail1, mail2}
    Signups = {s1, s2}
    Uploads = {u1, u2}
    Works = {w1}
    MaxFrames = 2
    MaxExtracted = 3
INVARIANTS
    TypeOK OffMeansOff ThreadKept CharactersStand
PROPERTY
    MemorySupersedes
SYMMETRY Symmetry
CHECK_DEADLOCK FALSE
