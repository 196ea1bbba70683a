SPECIFICATION Spec
CONSTANTS
    Job = {j1, j2, j3}
    Sha = {a}
    NoJob = nojob
    Origins = {"folder"}
    Removers = {}
    Together = 1
    MaxFaults = 1
PROPERTIES
    RepeatIsRecognised
CHECK_DEADLOCK FALSE
