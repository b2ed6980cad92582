SPECIFICATION Spec
CONSTANTS
    NumKeys = 2
    ScanKeys = 3
    Buttons = {b1, b2}
    NULL = NULL
    Codes <- MCCodes
    LabelActions <- MCLabelActions
    PictureActions <- MCPictureActions
    Dropped <- MCDropped
    Settings = {s0, s1}
    Default = s0
    Pool = {t1}
    None = None
    Unread = Unread
    Reports <- MCReports
    MaxDrops = 2
    MaxEdits = 1
    MaxReports = 1
    MaxStarts = 1
SYMMETRY Symmetry
INVARIANT ExecutesButtons
CHECK_DEADLOCK FALSE
