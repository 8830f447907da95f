CONSTANTS
    Terms <- MCTerms
    RuleLengths <- MCRuleLengths
    MaxPrec = 2
SPECIFICATION Spec
INVARIANTS
    InstallAssertion
    TableIsDetermined
    NoSilentResolution
PROPERTY ChainKeepsReductions
CHECK_DEADLOCK FALSE
