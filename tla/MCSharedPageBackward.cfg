SPECIFICATION Spec
CONSTANTS
    Row = {1, 2, 3, 4}
    Nil = Nil
    Sizes = {1, 2, 3}
    HalfRange = 16
    Resolver = {x1, x2}
INVARIANT
    BackwardIsRight
CHECK_DEADLOCK FALSE
