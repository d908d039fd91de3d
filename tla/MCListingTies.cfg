SPECIFICATION Spec
CONSTANTS
    Links = {a, b}
    Limit = 1
    MaxTime = 1
INVARIANT QuietWalkShowsAll
