\* The clock stops at MaxTime: CHECK_DEADLOCK FALSE.
CONSTANTS
    Absent = Absent
    Invalid = Invalid
    None = None
    MaxTime = 6
    MaxLatency = 1
    Offsets <- Skewed
    FreshnessCap = 3
    Lifetimes = {0, 2, 4}
    Ages = {0, 1}
SPECIFICATION Spec
CHECK_DEADLOCK FALSE
INVARIANTS TypeOK FreshWithinPromise FreshWithinCap WholePromise
PROPERTIES DecayIsFinal 
