SPECIFICATION Spec
CONSTANTS
    Jobs = {j1}
    Workers = {w1}
    Streams = {}
    None = None
    MaxAttempts = 2
    MaxRedeliveries = 1
PROPERTY TerminalIsFinal
CHECK_DEADLOCK FALSE
