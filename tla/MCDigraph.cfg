CONSTANTS
    Node = {n1, n2, n3, n4}
    Elem = {n1, n2, n3, n4}
    MaxEdges = 5
SPECIFICATION MCSpec
PROPERTIES
    FinishesComponents
    Terminates
CHECK_DEADLOCK FALSE
