CONSTANTS
    Signal = {s1, s2}
    TgPress = {t1, t2}
    DcPress = {}
    WidePress = {}
    MissingWarnAfter = 2
    Faults = {}
    None = None
SPECIFICATION Spec
INVARIANT ReplacedIsOffBook
