SPECIFICATION FairSpec
INVARIANTS TypeOK  SlotsUsed
PROPERTY EveryDocumentSettles
CONSTANTS
    Docs = {d1, d2}
    Files = {repeated, other, blank}
    Pieces = {x, y}
    Content <- MCContent
    Writers = {w1}
    Concurrency = 1
    MaxRetries = 1
    MaxUploads = 3
    MaxFaults = 2
    repeated = repeated
    other = other
    blank = blank
    x = x
    y = y
    Null = Null
    NoDoc = NoDoc
    NoJob = NoJob
CHECK_DEADLOCK FALSE
