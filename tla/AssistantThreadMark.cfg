\* The button of a proposal is pressed while the answer still streams.
CONSTANTS
    p1 = p1  p2 = p2
    Proposals = {p1, p2}
    MaxTurns = 1
    max_steps = 1
    MaxCalls = 1
    MaxPresses = 1
    MaxTroubles = 0
    MaxEvents = 1
SPECIFICATION Spec
INVARIANT ConfirmedIsMarked
CHECK_DEADLOCK FALSE
