SPECIFICATION Spec
CONSTANTS
    Devices = {d1, d2}
    Shapes <- MCShapes
    FinalShapes <- MCCutOff
    MaxCalls = 2
    MaxTurns = 3
    MaxRuns = 2
    MaxPosts = 3
    MaxRepairs = 1
SYMMETRY Symmetry
INVARIANTS TypeOK MemoryIsLog NothingDangles ToolsAnsweredOnce QuestionIsCurrent TakeoverIsInvisible
\* Turns and posts run out.
CHECK_DEADLOCK FALSE
