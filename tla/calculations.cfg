SPECIFICATION Spec
CONSTANTS
    Scale = 4
    Tolerance = 1
    TopK = 2
    Letters = {"f", "fi", "-", "nl", "zw", " "}
    QuoteLetters = {"f", "fi", "-", "nl"}
    MaxText = 5
    MaxSteps = 5
    Process = {"web", "worker"}
    RenderedPages = 1
    ScannedPages = 2
    OCR_TRIGGER_CHARS = 2
    OCR_MAX_PAGES = 1
    MIN_CHARS_PER_PAGE = 2
    MAX_PAGES = 3
    MIN_DOCUMENT_CHARS = 1
    WARN = 60
    MAX_CORPUS = 3
    MIN_SIMILARITY = 1
    PER = 4
    Day = 4
    Capacity = 2
    Interval = 2
INVARIANTS
    BandIsOfTheStates
    GatesAskAPerson
    LocatedOnly
    ReviewAgrees
    TracesToTheOriginal
    LocatedWhereItIs
    PassageShowsTheQuote
    BestAreShown
    MergeForgetsNothing
    OnlyWorse
    ReadAsWritten
    AnchorsAreDecisions
    OpenPointsAreAsked
    CostsAreOfOneList
    PanelsTell
    RubricInForce
    BatchIsAccountedFor
CHECK_DEADLOCK FALSE
