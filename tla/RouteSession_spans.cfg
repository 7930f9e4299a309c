CONSTANTS
    Nodes = {1, 2, 3}
    Links = {{1, 2}, {2, 3}}
    Open = {3}
    MaxFaults = 1
SPECIFICATION Spec
INVARIANTS TypeOK OneInitiatorSession
PROPERTIES SessionsSettle
