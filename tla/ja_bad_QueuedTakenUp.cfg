SPECIFICATION FairSpec
CONSTANTS
    p1 = p1
    p2 = p2
    l1 = l1
    l2 = l2
    l3 = l3
    NoPosting = NoPosting
    Postings = {p1}
    Links = {l1}
    Target <- OwnTarget
    LinkRuns = {r1}
    AppRuns = {a1}
    MaxLinks = 1
    JobsPerRun = 1
PROPERTY QueuedTakenUp
