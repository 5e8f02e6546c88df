SPECIFICATION Spec
CONSTANTS
    Items <- MCItems
    Capacity = 4
    Cutoffs = {1, 2, 3}
    Undefined = Undefined
INVARIANTS LiveSlots
PROPERTIES ImplementsQueue
