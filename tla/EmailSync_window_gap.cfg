SPECIFICATION Spec
CONSTANTS
    Callers = {job, request}
    Scheduler = job
    Free = free
    MaxArrivals = 3
    PageSize = 1
    MaxFaults = 1
    Options <- DatedOptions
    DefaultOptions <- Unlimited
INVARIANTS
    NoGap
