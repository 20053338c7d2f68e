CONSTANTS
    MaxSignals = 2
    Chats = {c1, c2}
    Batch = 2
    Unrenderable = {}
    GateAlerts = FALSE
    Faults = {"store", "send", "commit", "restart"}
SPECIFICATION Spec
SYMMETRY Symmetry
INVARIANTS
    CardsAreDue
    NothingPassedOver
