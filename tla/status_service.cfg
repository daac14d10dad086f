SPECIFICATION Spec
CONSTANTS
    Runs = {r1}
    Jobs = {j1}
    RunOf <- OfOneRun
    Conclusions = {"success", "failure"}
    PullRuns = {r1}
    NamedPRs <- NoPRs
    HeadPRs <- OnePR
    MaxRevisions = 0
    NoRun = NoRun
INVARIANTS TypeOK NeverAhead AnsweredFor 
PROPERTIES StatusNeverRegresses MirrorsGitHub
