CONSTANTS
    Token = {a, b}
    Object = {o1, o2}
    CallBound = 7
SYMMETRY Symmetry
SPECIFICATION Spec
INVARIANTS
    NothingLost
    FlagsAgree
CHECK_DEADLOCK FALSE
