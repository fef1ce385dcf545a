SPECIFICATION WorkspaceSpec
CONSTANTS
    MaxText = 1
    MaxOpen = 2
    MaxAsked = 1
    HistoryLimit = 2
    PasteLimit = 2
    Typed = {"word", "space"}
    MaxLength = 3
    MaxRevision = 3
    Size <- Sizes
    Pointer = {0, 18, 110}
    MaxShapes = 2
    Tables <- Results
    Automatic <- Widths
    MaxWidth = 6
    MaxResized = 1
    Bits = 8
CHECK_DEADLOCK FALSE
INVARIANTS
    TopmostOwnsKeyboard
    MarkIsOfThisText
    UndoTakesOneWord
    PanesFit
    TroubleIsDrawn
    SelectedIsInWindow
PROPERTIES
    EditsAreSeen
    MenuFollowsTheText
    SortKeepsTheRow
