SPECIFICATION Spec
CONSTANTS
    Parts = {
        "caches", "search", "rollups", "early",
        "liveRuns", "series"}
INVARIANTS AnswersWhole
PROPERTIES FiguresKept
CHECK_DEADLOCK FALSE
