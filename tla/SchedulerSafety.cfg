SPECIFICATION Spec
CONSTANTS
    host = host
    worker = worker
    NoThread = NoThread
    Threads <- MCThreads
    Delays <- MCSignedDelays
    Periods <- MCSignedPeriods
    NewDelays = {}
    IdSpace = 8
    MaxAdds = 3
    MaxTime = 2
SYMMETRY MCSymmetry
INVARIANTS
    IteratorValid
    Accounted
    SameDelayInOrder
PROPERTIES
    RemovedNeverFires
    OneShotFiresOnce
    RefiresOnlyInSameInstant
    ImplementsTimers
