\* A reading back that fails does not keep the next save from succeeding.
SPECIFICATION AppsSpec
CONSTANTS
    Parts = {"writer"}
    Sizes <- WindowSizes
    Limit = 1
    Counts = {0, 1, 2}
    Groups <- StyleGroups
    MaxGroups = 2
    MaxCells = 2
    Bytes <- FeedBytes
    MaxChunk = 2
    MaxBytes = 5
    MaxSessions = 3
    MaxTabs = 2
    Letters = {"x", "newline"}
    Breaks = {"newline"}
    Texts <- MCTexts
    Styles = {"body", "heading"}
    Documents <- MCDocuments
    MaxLength = 2
    MaxRows = 2
    MaxEdits = 2
    MaxFaults = 1
    SlideTexts = {"", "a"}
    MaxSlides = 3
    MaxDeckEdits = 3
    Height = 2
    Width = 1
    Raw = {"=A1"}
    Reference = "=A1"
    MaxCellEdits = 2
PROPERTIES SavedAsShown
CHECK_DEADLOCK FALSE
