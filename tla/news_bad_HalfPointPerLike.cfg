SPECIFICATION Spec
CONSTANTS
    go = go
    tech = tech
    r1 = r1
    r2 = r2
    e1 = e1
    NoName = NoName
    Items = {1, 2, 4}
    InterestOf <- MCInterestOf
    Judged <- MCJudged
    Defaults = {go}
    Own = {tech}
    Deliveries = {r1, r2}
    EventOf <- MCEventOf
    EmojiOf <- MCEmojiOf
    MinScore = 5
    MaxItems = 2
    MaxPerInterest = 2
    MaxPerCategory = 1
    StoryWindow = 1
    MaxNow = 2
    MaxRuns = 2
CHECK_DEADLOCK FALSE
SYMMETRY Symmetry
ACTION_CONSTRAINT Reduced
INVARIANT
    HalfPointPerLike
