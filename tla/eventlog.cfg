SPECIFICATION OrderedSpec
CONSTANTS
    Writers = {w1, w2}
    Clients = {c1}
    LiveCap = 4
    MaxBatch = 2
    MaxLog = 3
    MaxGen = 2
INVARIANTS TypeOK NoGap
PROPERTIES FeedKept EventuallyDelivered
