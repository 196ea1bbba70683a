SPECIFICATION FairSpec
CONSTANTS
    Reviewer = {r1}
    Sink = {csv}
    CsvSink = csv
    Deliverer = {}
    DemoModes = {FALSE}
    Exceptional = {"CONFIG", "INTAKE", "EXTRACT", "SANITIZE", "STRUCTURE", "CALIBRATE", "ASSESS", "AGGREGATE", "COMPOSE", "REVIEW"}
    Jobs = {"reconcile", "remove"}
    MaxFaults = 0
    MaxVersion = 0
INVARIANTS
    TypeOK
    UncleanIsFlagged
PROPERTIES
    NoLostWork
    WorkingRunIsCleared
CHECK_DEADLOCK FALSE
