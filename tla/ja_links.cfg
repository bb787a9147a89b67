SPECIFICATION Spec
CONSTANTS
    p1 = p1
    p2 = p2
    l1 = l1
    l2 = l2
    l3 = l3
    NoPosting = NoPosting
    Postings = {p1}
    Links = {l1, l2}
    Target <- SameTarget
    LinkRuns = {r1, r2}
    AppRuns = {a1}
    MaxLinks = 2
    JobsPerRun = 1
SYMMETRY SameSymmetry
ACTION_CONSTRAINT NoHunts
INVARIANTS
    PublishedHasApplication
    DoneLinksLead
PROPERTIES
    RemovedStaysRemoved
