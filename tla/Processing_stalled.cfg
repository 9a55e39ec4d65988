SPECIFICATION Spec
CONSTANTS
    Mail <- TwoMessages
    Unreadable <- NoMessage
    Blank <- NoMessage
    Runners = {r}
    Classifiers = {d}
    Chats = {c}
    Free = free
    BatchSize = 1
    MaxCandidates = 2
    MaxEmails = 1
    MaxTarget = 1
    MaxFaults = 1
INVARIANTS DashboardIsCurrent
