SPECIFICATION FairSpec
CONSTANTS
    Callers = {job, request}
    Scheduler = job
    Free = free
    MaxArrivals = 3
    PageSize = 1
    MaxFaults = 1
    Options <- LiveOptions
    DefaultOptions <- Unlimited
PROPERTIES
    RunsEnd
    EventuallyStored
