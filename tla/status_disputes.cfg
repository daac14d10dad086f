SPECIFICATION Spec
CONSTANTS
    Runs = {r1, r2}
    Jobs = {}
    RunOf <- OfOneRun
    Conclusions = {"success", "failure"}
    PullRuns = {}
    NamedPRs <- NoPRs
    HeadPRs <- NoPRs
    MaxRevisions = 1
    NoRun = NoRun
 
PROPERTY ConclusionsSettled
