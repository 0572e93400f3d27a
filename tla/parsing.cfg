\* Two workers, up to three attempts, chunks of two rows, logs of up to three messages.
CONSTANTS
    att = att  gps = gps  w1 = w1  w2 = w2
    NoType = NoType
    Types <- TypesDef
    Uploads <- UploadsDef
    Workers = {w1, w2}
    Chunk = 2
    MaxAttempts = 3
    MaxMessages = 3
SPECIFICATION Spec
INVARIANTS RowsKept StoredWhole FormatRecognised
SYMMETRY Symmetry
CHECK_DEADLOCK FALSE
