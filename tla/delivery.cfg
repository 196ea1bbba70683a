SPECIFICATION FairSpec
CONSTANTS
    Reviewer = {r1}
    Sink = {csv, sheets}
    CsvSink = csv
    Deliverer = {d1}
    DemoModes = {FALSE, TRUE}
    Exceptional = {}
    Jobs = {"remove"}
    MaxFaults = 4
    MaxVersion = 16
INVARIANTS
    OneRowPerFault
PROPERTIES
    ApprovedIsDelivered
CHECK_DEADLOCK FALSE
