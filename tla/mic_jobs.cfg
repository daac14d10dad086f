SPECIFICATION FairSpec
CONSTANTS
    Jobs = {j1}
    Actors = {a1}
    ActorOf <- OfOne
    Handlers = {h1, h2}
    Profiles = {cuda}
    Hourly = 1
    Slots = 1
    MaxProgress = 2
INVARIANTS TypeOK AtMostOneDispatch OutcomeTrue
PROPERTIES NothingForgotten Settles
CHECK_DEADLOCK FALSE
