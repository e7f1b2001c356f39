SPECIFICATION FairSpec
CONSTANTS
    Client = {a, b}
    Limit = 1
    Hold = 1
    MaxFaults = 1
    MaxDeaths = 1
    Crashes = TRUE
INVARIANTS TypeOK ReservationHeld
PROPERTIES LimitHeldAlone SlotFreed SomeoneServed ServedEnds
