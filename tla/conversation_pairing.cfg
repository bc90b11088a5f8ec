SPECIFICATION Spec
CONSTANTS
    Devices = {d1, d2}
    Shapes <- MCShapes
    FinalShapes <- MCNoCutOff
    MaxCalls = 2
    MaxTurns = 2
    MaxRuns = 2
    MaxPosts = 3
    MaxRepairs = 1
SYMMETRY Symmetry
INVARIANTS PauseIsInvisible
\* Turns and posts run out.
CHECK_DEADLOCK FALSE
