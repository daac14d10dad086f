SPECIFICATION Spec
CONSTANTS
    Parts = {
        "pages", "view", "commands", "auth", "accounts", "questions",
        "drafts", "reruns", "shared", "badge"}
    CommandRequests <- SentFromSlack
    SentAt <- HoursSent
    CommandSlots = 2
    Hourly = 1
    RetryHours = 1
    Keep = 2
    CommandsMaxTime = 4
    CommandsMaxFaults = 1
    Visitors = {"u", "v"}
    Browsers = {"b", "p"}
    LoginStates = {"m", "n"}
    Codes = {"c"}
    StateLife = 1
    CodeLife = 3
    SessionLife = 2
    AuthMaxTime = 3
    MaxRevokes = 1
    Owners = {"o", "p", "q"}
    Identities = {"g", "h"}
    Logins = {"x", "y", "z"}
    FirstLogin <- TwoLogins
    Managed <- OneManaged
    MaxGrants = 2
    MaxRenames = 1
    MaxDisconnects = 1
    QuestionRequests <- FiveQuestions
    QuestionSlots = 1
    UserLimit = 1
    Attempts = 2
    OkLife = 2
    FailureLife = 1
    QuestionsMaxTime = 2
    MaxFailures = 2
    Tests = {"n1", "n2"}
    People = {"ann", "bob"}
    Drafts = {"d1", "d2"}
    OwnerOf <- OneDraftEach
    TestsOf <- PacketAndOne
    Impatient = {}
    IssuesChange = FALSE
    MaxIssues = 2
    MaxLost = 1
    DraftsMaxRestarts = 0
    NoTest = "no test"
    NoLogin = "nobody"
    PRs = {"pr1"}
    Lanes = {"cpu", "gpu"}
    Actions = {"a1"}
    PrOf <- OnePr
    LanesOf <- TwoLanes
    Posts = {"p1", "p2"}
    KeyOf <- SameAction
    SourceRuns = {"s1"}
    SourceOf <- OneSource
    RerunsMaxRestarts = 1
    NoTarget = "none"
    SharedRequests = {1, 2, 3}
    FreshSeconds = 1
    StaleSeconds = 2
    BuildTime = 1
    SharedMaxTime = 2
    MaxEvictions = 1
    BadgeRuns = {1, 2, 3}
    EventOf <- TwoAndARerun
    JobsOf <- OneJobOrTwo
    Streams = {"pr-ci"}
    BadgeRequests = {1, 2}
    Window = 2
    BadgeKeep = 1
    ReadTime = 1
    BadgeMaxTime = 4
    BadgeMaxFaults = 1
INVARIANTS PagesWhole AnsweredOnce SessionsEarned DispatchedOnce 
PROPERTIES ActsAsLinked TestsHeld
CHECK_DEADLOCK FALSE
