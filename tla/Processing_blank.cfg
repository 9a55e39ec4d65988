SPECIFICATION FairSpec
CONSTANTS
    Mail <- TwoMessages
    Unreadable <- NoMessage
    Blank <- Oldest
    Runners = {r}
    Classifiers = {}
    Chats = {c}
    Free = free
    BatchSize = 1
    MaxCandidates = 2
    MaxEmails = 1
    MaxTarget = 1
    MaxFaults = 0
PROPERTIES AllMailClassified
