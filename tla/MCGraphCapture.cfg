SPECIFICATION FairSpec
CONSTANTS
    d1 = d1  d2 = d2  d3 = d3
    Descs = {d1, d2, d3}
    ShapeOf <- MCShapes
    Tasks = 2
    Faults = {"capture", "enqueue", "update"}
    MaxGraphs = 7
    MaxSteps = 3
    MaxStarts = 2
INVARIANTS UpdatesOwnGraph RefusedOnlyForSameShape TasksRunWithOwnStep
PROPERTIES ReplaysEnd
CHECK_DEADLOCK FALSE
