\* Two processes, two toggles at once, crashes; three states stored.
SPECIFICATION MaintenanceSpec
CONSTANTS
    p1 = p1
    p2 = p2
    Processes <- TwoProcesses
    Toggles = {t1, t2}
    Reasons = {""}
    NoReason = ""
    Minutes <- AnHourOrTooMuch
    ETALimit = 3600
    MaxSets = 2
INVARIANTS MaintenanceTypeOK OnlyStoredIsShown
PROPERTIES Converges
