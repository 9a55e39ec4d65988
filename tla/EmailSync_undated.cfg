SPECIFICATION Spec
CONSTANTS
    Callers = {job, request}
    Scheduler = job
    Free = free
    MaxArrivals = 3
    PageSize = 1
    MaxFaults = 2
    Options <- UndatedOptions
    DefaultOptions <- Unlimited
INVARIANTS
    TypeOK
    NoGap
    BackfillCovers
    ResumeTokenSound
    BackfillRecordsItsPage
PROPERTIES
    BackfillResumes
    ImplementsMirror
