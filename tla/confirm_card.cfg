CONSTANTS
    Signal = {s1}
    TgPress = {}
    DcPress = {d1, d2}
    WidePress = {d1}
    MissingWarnAfter = 2
    Faults = {"store", "reply", "restart"}
    None = None
SPECIFICATION FairSpec
PROPERTIES
    PressIsAnswered
    WatchEndsAfterClose
    RefinesSignalLife
