CONSTANTS
    Signal = {s1}
    TgPress = {t1}
    DcPress = {}
    WidePress = {}
    MissingWarnAfter = 2
    Faults = {"reply"}
    None = None
SPECIFICATION FairSpec
INVARIANT OneOrderPerSignal
