SPECIFICATION DatabaseSpec
CONSTANTS
    s1 = s1  s2 = s2  a = a  b = b  p = p  q = q  r1 = r1
    NoText = NoText  NoVersion = NoVersion
    Statements = {s1, s2}
    RowKeys = {a, b}
    Given <- GivenValues
    MaxStarts = 3
    Writers = {s1, s2}
    Searchers = {r1}
    Docs = {a, b}
    Phrases = {p, q}
    MaxCached = 1
    MaxWrites = 3
    Requests = {a, b}
    Supervisors = {s1, s2}
    MaxInFlight = 1
    BackoffSteps = 2
    MaxOps = 4
    TrackedRows = {a, b}
    ModelVersions = {p, q}
    Changers = {s1, s2}
    MaxChangesTracked = 4
    DedupTexts <- NearTexts
    Coeffs <- HashCoeffs
    Prime = 31
    SlotRange = 16
    RowsPerBand = 2
    Copies = 3
    HashWidth = 3
    TrainKeys = {a, b}
    WordVectors <- Words
    TagNames <- Names
    PathChars = {"x", "_"}
    SqMax = 3
    MaxTrainTs = 2
    MaxTrainOps = 4
SYMMETRY DatabaseSymmetry
 
 
INVARIANT KeepsTrackUnlessRaced
INVARIANT FreshIsCurrentUnlessLate
INVARIANT CachedResultCurrent
INVARIANT DedupKeepsOnePerChain
 
 
CHECK_DEADLOCK FALSE
