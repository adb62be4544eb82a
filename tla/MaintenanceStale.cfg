\* A toggle against the refresh of the same process.
SPECIFICATION MaintenanceSpec
CONSTANTS
    p1 = p1
    p2 = p2
    Processes <- TwoProcesses
    Toggles = {t1}
    Reasons = {""}
    NoReason = ""
    Minutes <- AnHourOrTooMuch
    ETALimit = 3600
    MaxSets = 1
INVARIANT BeginSticks
