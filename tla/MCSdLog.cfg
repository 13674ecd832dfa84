SPECIFICATION LogSpec
CONSTANTS
    Cap = 3
    MaxPuts = 6
    Room = 5
INVARIANTS Bounded Faithful
