SPECIFICATION FairSpec
CONSTANTS
    c1 = c1
    t1 = t1
    s1 = s1
    s2 = s2
    ours = ours
    theirs = theirs
    d1 = d1
    Articles <- MCArticles
    Customers = {c1}
    Types = {t1}
    Summaries = {ours, theirs}
    Stories = {s1, s2}
    Domains = {d1}
    Marks = {1, 2}
    Relevant <- MCRelevant
    Published <- MCPublished
    Story <- MCStory
    Domain <- MCDomain
    Fingerprint <- MCFingerprint
    Match <- MCMatch
    BaseThreshold <- MCThreshold
    Answers <- MCAnswers
    Hints <- MCHints
    Labels <- MCLabels
    Top = 1
    Limit = 1
    KeepSeen = 2
    Lookback = 3
    MaxAge = 1
    Grace = 1
    Cooldown = 2
    NoSignal = 3
    MinLabels = 1
    MinItems = 1
    MinHistory = 2
    MaxRuns = 1
    Faults = {"influx", "page"}
    MaxClock = 3
    MaxFaults = 1
    MaxLabels = 1
PROPERTIES
    NeverTwice
