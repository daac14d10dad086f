SPECIFICATION FairSpec
CONSTANTS
    Poller = Poller
    NoOne = NoOne
    Investigations = {i1}
    Handlers = {h1}
    MaxPhases = 2
    MaxRestarts = 1
INVARIANT PhasesFollowSerge
PROPERTY FollowedToTheEnd
CHECK_DEADLOCK FALSE
