CONSTANTS
    MaxSlots = 2
    MaxGen = 3
    Sizes = {1, 2}
    MaxSubmits = 3
    MaxRefusals = 1
SPECIFICATION Spec
INVARIANTS
    LiveCountExact
    WorkConserved
PROPERTIES
    CompletesItsOwnRequest
    ImplementsLedger
