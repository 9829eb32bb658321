SPECIFICATION Spec
CONSTANTS
    VideoModes = {FALSE, TRUE}
    Lead = 1
    ReadLen = 1
    Frame = 2
    EncodeMayFail = TRUE
    WriteMayFail = FALSE
    QLen = 3
    MaxReads = 4
    MaxImgs = 4
    ThreadMayFail = FALSE
INVARIANTS TypeOK NothingOutlivesApp
PROPERTIES VideoThreadEnds AppReturns
