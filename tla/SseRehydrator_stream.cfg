CONSTANTS
    Keys <- MCKeys
    JsonKeys = {"call"}
    Names = {"p", "q"}
    InitialNames = {"p"}
    Plain <- MCPlain
    InJson <- MCInJson
    Answers <- MCAnswers
    Terminators <- MCTerminators
    MaxFragment = 3
    MaxAhead = 4
    MaxHeldTail = 2
    MaxText = 3
SPECIFICATION Spec
INVARIANTS AsIfInOnePiece DeliveredWhole
CHECK_DEADLOCK FALSE
