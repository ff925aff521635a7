SPECIFICATION StreamSpec
CONSTANTS
    Room = 3
    MaxUnits = 5
INVARIANTS
    HandedOver
PROPERTIES
    EndArrives
