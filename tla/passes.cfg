SPECIFICATION Spec
CONSTANTS
    Reviewer = {r1, r2}
    Sink = {csv, sheets}
    CsvSink = csv
    Deliverer = {d1, d2}
    DemoModes = {FALSE}
    Exceptional = {}
    Jobs = {"remove"}
    MaxFaults = 1
    MaxVersion = 0
SYMMETRY Symmetry
INVARIANTS
    ApprovalGate
    DeliveredEverywhere
    RecordHasRow
    OneDecision
    DecisionMatchesStatus
PROPERTIES
    GateRefinement
CHECK_DEADLOCK FALSE
