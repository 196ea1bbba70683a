SPECIFICATION Spec
CONSTANTS
    Reviewer = {r1}
    Sink = {csv, sheets}
    CsvSink = csv
    Deliverer = {}
    DemoModes = {FALSE}
    Exceptional = {"STRUCTURE"}
    Jobs = {}
    MaxFaults = 0
    MaxVersion = 0
INVARIANT
    FailedNodeIsFlagged
CHECK_DEADLOCK FALSE
