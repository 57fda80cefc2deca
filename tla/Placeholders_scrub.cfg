CONSTANTS
    a = a
    b = b
    Values <- MCValues
    PrefixOf <- MCPrefixOf
    Contents <- MCContents
    Highest = 3
    MaxIndex = 9
    MaxCalls = 3
SPECIFICATION Spec
INVARIANTS TypeOK RoundTrip OnePlaceholderPerValue
PROPERTIES MapOnlyGrows MintReturns
CHECK_DEADLOCK FALSE
