SPECIFICATION Spec
CONSTANTS
    VideoModes = {FALSE, TRUE}
    Lead = 1
    ReadLen = 1
    Frame = 2
    EncodeMayFail = TRUE
    WriteMayFail = TRUE
    QLen = 3
    MaxReads = 4
    MaxImgs = 4
    ThreadMayFail = FALSE
INVARIANT NothingOutlivesApp
