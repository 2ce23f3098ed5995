CONSTANTS
    Message = {1, 2, 3}
    Version = {"v1", "v2"}
    Watermark = 3
    Nothing = Nothing
    MaxWindows = 4
    MaxInvalid = 1
    MaxFailures = 0
    Observation <- MCStraight
    Batch <- MCNoBatch
SPECIFICATION Spec
INVARIANT FullMeansStable
CHECK_DEADLOCK FALSE
