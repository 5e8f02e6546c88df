SPECIFICATION Spec
CONSTANTS
    Clients = {c1, c2}
    Retention = 1
    MaxEvents = 2
    MaxTime = 3
    MaxEmitted = 3
SYMMETRY Symmetry
PROPERTIES ReplayedSinceClosing
