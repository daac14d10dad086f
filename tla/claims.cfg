SPECIFICATION FairSpec
CONSTANTS
    n1 = n1
    n2 = n2
    ann = ann
    bob = bob
    d1 = d1
    d2 = d2
    NoTest = NoTest
    NoLogin = NoLogin
    Tests <- OneTest
    People <- TwoPeople
    Drafts <- OneDraft
    OwnerOf <- Anns
    TestsOf <- AnnsTest
    Impatient <- Everybody
    IssuesChange = TRUE
    MaxIssues = 1
    MaxLost = 0
    MaxRestarts = 1
 
PROPERTY ClosedFrees
CHECK_DEADLOCK FALSE
