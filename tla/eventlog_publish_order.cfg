SPECIFICATION Spec
CONSTANTS
    Writers = {w1, w2}
    Clients = {c1}
    LiveCap = 8
    MaxBatch = 2
    MaxLog = 3
    MaxGen = 0

INVARIANTS NoGap
