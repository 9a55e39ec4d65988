SPECIFICATION FairSpec
CONSTANTS
    Mail <- ThreeMessages
    Unreadable <- Second
    Blank <- Oldest
    Runners = {r}
    Classifiers = {}
    Chats = {c}
    Free = free
    BatchSize = 2
    MaxCandidates = 3
    MaxEmails = 1
    MaxTarget = 2
    MaxFaults = 1
PROPERTIES TasksEnd AllMailClassified IndexSettles
