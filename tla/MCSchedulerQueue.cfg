SPECIFICATION Spec
CONSTANTS
    d1 = d1
    d2 = d2
    Devices = {d1, d2}
    MaxTime = 2
    Tickets <- MCTickets
    CAPACITY = 3
    MaxCapacity = 6
SYMMETRY MCSymmetry
PROPERTY ImplementsSortedQueue
