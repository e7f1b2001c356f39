SPECIFICATION Spec
CONSTANTS
    Client = {a, b, c}
    Limit = 2
    Hold = 1
    MaxFaults = 0
    MaxDeaths = 0
    Crashes = FALSE
SYMMETRY Symmetry
INVARIANT WithinLimit
