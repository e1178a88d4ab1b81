\* A stream with every fault, two streams with a resume, and two interim texts.
SPECIFICATION MCSpec
CONSTANTS
    MaxStreams = 2
    MaxAudio = 1
    Faults <- AnyFault
    t1 = t1
    t2 = t2
    NoText = NoText
    Texts = {t1, t2}
    MinInterval = 2
INVARIANTS TypeOK
PROPERTIES ClosingEnds ClosedIsQuiet BrokenStreamEndsSession RequestRate NoRepeat NothingAskedAfterEnd CaptionCatchesUp
CHECK_DEADLOCK FALSE
