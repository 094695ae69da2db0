\* Two instruments on a list, two sessions of two days, one fault.
CONSTANTS
    N = 2
    Size = 2
    Measures = {1, 2}
    Margin = 2
    Criteria <- MCCriteria
    MaxLosses = 2
    MaxLoss = 2
    Losses <- MCLosses
    MaxTime = 3
    MaxLists = 3
    MaxFaults = 1
    None = None
SPECIFICATION Spec
INVARIANTS
    TypeOK
    
    
    OneSwitchPerList
    SwitchesWhenFlat
CHECK_DEADLOCK FALSE
