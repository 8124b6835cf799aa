SPECIFICATION FairSpec
CONSTANTS
    host = host
    worker = worker
    NoThread = NoThread
    Threads <- MCThreads
    Delays <- MCDelays
    Periods <- MCPositivePeriods
    NewDelays = {2}
    IdSpace = 2
    MaxAdds = 3
    MaxTime = 2
PROPERTIES
    OnlyWrapMixesTasks
    RunEnds
    DueTaskLeaves
