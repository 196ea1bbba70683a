SPECIFICATION FairSpec
CONSTANTS
    Reviewer = {r1}
    Sink = {csv, sheets}
    CsvSink = csv
    Deliverer = {}
    DemoModes = {FALSE}
    Exceptional = {}
    Jobs = {"reconcile"}
    MaxFaults = 0
    MaxVersion = 0
PROPERTY
    InterruptedResumes
CHECK_DEADLOCK FALSE
