SPECIFICATION Spec
CONSTANTS
    e1 = e1
    e2 = e2
    e3 = e3
    w = w
    Documented <- MCDocumented
    Contract <- MCContract
    Opaque <- MCOpaque
    Credentials <- MCCredentials
    FollowUps <- MCFollowUps
    AnswerPlaces <- MCAnswerPlaces
    ClientTexts <- MCClientTexts
    ModelTexts <- MCModelTexts
    Values = {e1, e2, e3}
    Escape <- MCEscape
    Words = {w}
    CredentialKeys = {"password"}
    MaxDepth = 2
    MaxIndex = 6
    MaxStrings = 2
    MaxRequests = 2
INVARIANTS AsDocumented EchoStable MeaningKept ClientGetsValues
CHECK_DEADLOCK FALSE
