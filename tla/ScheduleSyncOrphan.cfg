SPECIFICATION SyncSpec
CONSTANTS
    Editors = {e1}
    Boots = {b1}
    Specs = {1, 2}
    NoSchedule = NoSchedule
    MaxChanges = 1
    MaxRepairs = 1
    MaxSlips = 0
INVARIANT ActiveIsScheduled
CHECK_DEADLOCK FALSE
