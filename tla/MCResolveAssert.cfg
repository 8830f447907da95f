CONSTANTS
    Terms <- MCTerms
    RuleLengths <- MCRuleLengths
    MaxPrec = 2
SPECIFICATION Spec
INVARIANT ShiftItemsHaveEdges
CHECK_DEADLOCK FALSE
