SPECIFICATION Spec
CONSTANTS
    Turns = {t1, t2, t3}
    Earlier = earlier
    KindCount = 1
    Limit = 3
    Window = 2
    MaxActs = 0
    Emails = {mail1}
    Signups = {s1}
    Uploads = {u1}
    Works = {w1}
    MaxFrames = 1
    MaxExtracted = 1
INVARIANT
    FollowUpRevises
SYMMETRY Symmetry
CHECK_DEADLOCK FALSE
