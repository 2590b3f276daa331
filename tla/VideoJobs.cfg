SPECIFICATION FairSpec
CONSTANTS
    Jobs = {j1}
    Workers = {w1, w2}
    Streams = {s1}
    None = None
    MaxAttempts = 2
    MaxRedeliveries = 1
INVARIANTS TypeOK CompletedHasOutputs AcceptedJobSettles StreamReportsOutcome DeadLettersAreFailures RenderBudget
PROPERTIES OutcomeIsFinal AcceptedJobRests StreamEnds ImplementsLifecycle
CHECK_DEADLOCK FALSE
