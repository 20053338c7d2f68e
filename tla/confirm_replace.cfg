CONSTANTS
    Signal = {s1, s2}
    TgPress = {t1}
    DcPress = {d1}
    WidePress = {d1}
    MissingWarnAfter = 1
    Faults = {"store", "reply"}
    None = None
SPECIFICATION Spec
SYMMETRY Symmetry
CONSTRAINT ReplaceBound
INVARIANTS
    OrdersAreSound
    ReplacedIsCancelled
PROPERTIES
    CancelsOnlyItsOwn
