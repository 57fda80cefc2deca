CONSTANTS
    Secret = Secret
    Phone = Phone
    Cpf = Cpf
    Ticket = Ticket
    Length = 5
    Blanks = {2}
    Categories = {Secret, Phone, Cpf, Ticket}
    Priority <- MCPriority
    Inputs <- MCInputs
    MaxFindings = 3
    MaxBelow = 2
SPECIFICATION DetectSpec
INVARIANTS SortedAndApart NarrowedNotDropped OnlyFoundTextRedacted SuppressedIsWhatIsLeft
PROPERTIES NeverWeakened Closer Detected
CHECK_DEADLOCK FALSE
