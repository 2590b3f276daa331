SPECIFICATION Spec
CONSTANTS
    Jobs = {j1}
    Workers = {w1}
    Streams = {}
    None = None
    MaxAttempts = 2
    MaxRedeliveries = 1
INVARIANT LostJobIsNotRunning
CHECK_DEADLOCK FALSE
