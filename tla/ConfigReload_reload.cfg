SPECIFICATION Spec
CONSTANTS
    Good = {a, b}
    BadPack = {p}
    Invalid = {i}
    None = None
    MaxVersion = 3
    MaxSignals = 1
    QuietStartup = TRUE
PROPERTIES SkippedOnlyInForce ReplacedByNewerValid LastSaveInForce
CHECK_DEADLOCK FALSE
