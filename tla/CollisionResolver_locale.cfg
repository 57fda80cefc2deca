CONSTANTS
    Secret = Secret
    Phone = Phone
    Cpf = Cpf
    Ticket = Ticket
    Length = 5
    Blanks = {}
    Categories = {Cpf}
    Priority <- MCPriority
    Inputs <- MCInputs
    MaxFindings = 3
SPECIFICATION Spec
INVARIANT LocaleNeverShrinks
CHECK_DEADLOCK FALSE
