SPECIFICATION FairSpec
CONSTANTS
    host = host
    caller = caller
    fetch1 = fetch1
    fs1 = fs1
    Host = host
    Callers <- MCCallers
    FetchJobs <- MCFetchJobs
    FsJobs <- MCFsJobs
    Script = Script
    NoThread = NoThread
    Delays <- MCDelays
    Periods <- MCPeriods
    MaxAdds = 3
    MaxTime = 1
INVARIANTS
    OneThreadInIsolate
    HandleOutlivesTask
    FsHandleReleasedSafely
PROPERTIES
    JobSettles
