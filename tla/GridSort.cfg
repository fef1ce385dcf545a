SPECIFICATION WorkspaceSpec
CONSTANTS
    MaxText = 1
    MaxOpen = 3
    MaxAsked = 1
    HistoryLimit = 2
    PasteLimit = 2
    Typed = {"word", "space"}
    MaxLength = 3
    MaxRevision = 4
    Size <- Sizes
    Pointer = {0, 18, 110}
    MaxShapes = 2
    Tables <- Zeros
    Automatic <- Widths
    MaxWidth = 6
    MaxResized = 1
    Bits = 8
CHECK_DEADLOCK FALSE
INVARIANT SortedByValue
