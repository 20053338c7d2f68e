CONSTANTS
    MaxSignals = 2
    Chats = {channel}
    Batch = 1
    Unrenderable = {1}
    GateAlerts = TRUE
    Faults = {"send", "reply"}
SPECIFICATION FairSpec
INVARIANT CooldownFollowsAlert
PROPERTY DueCardArrives
