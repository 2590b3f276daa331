SPECIFICATION FairSpec
CONSTANTS
    Callers = {c1, c2}
    Nodes = {c1}
    Rivals = {c2}
    MaxTries = 2
    Engines = {"sadtalker", "hunyuan", "fal", "lenient", "sora2"}
    Timeout = 2
    SadTalkerTimeout = 1
    HunyuanTimeout = 3
    Cap = 1
    RetryAfters = {3}
INVARIANTS TypeOK ClipIsOwn FailureIsOver ServerAnswersFirst WithinDeadline
PROPERTIES Settles ImplementsContract
CHECK_DEADLOCK FALSE
