SPECIFICATION Spec
CONSTANTS
    a = a
    b = b
    c = c
    interval = interval
    threshold = threshold
    preprocess = preprocess
    x = x
    Names = {a, b, c}
    Shared = Shared
    None = None
    Known = {interval, threshold, preprocess}
    Foreign = x
    Block = preprocess
    Inner = {threshold}
    Omitted = {preprocess}
    Default <- MCDefault
    Values = {0, 1, 2}
    Notes = {"header", "parked", "last"}
    HandFiles <- MCHandFiles
    HandEdits <- MCHandEdits
    MaxSaves = 1
    MaxHands = 0
CHECK_DEADLOCK FALSE
PROPERTIES
    NothingNewNothingWritten
