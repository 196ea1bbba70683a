SPECIFICATION Spec
CONSTANTS
    Reviewer = {r1}
    Sink = {csv, sheets}
    CsvSink = csv
    Deliverer = {d1, d2}
    DemoModes = {FALSE}
    Exceptional = {}
    Jobs = {}
    MaxFaults = 1
    MaxVersion = 0
PROPERTY
    TerminalIsFinal
CHECK_DEADLOCK FALSE
