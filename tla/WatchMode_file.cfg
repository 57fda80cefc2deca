CONSTANTS
    Versions = {v1, v2, v3, plain}
    Sensitive = {v1, v2, v3}
    Nothing = Nothing
    Ticks = {t1, t2, t3}
    Backup = TRUE
    MaxFailures = 2
    QuietWrites = TRUE
SPECIFICATION Spec
PROPERTIES OverwrittenIsBackedUp SettlesClean
CHECK_DEADLOCK FALSE
