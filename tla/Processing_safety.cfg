SPECIFICATION Spec
CONSTANTS
    Mail <- TwoMessages
    Unreadable <- NoMessage
    Blank <- NoMessage
    Runners = {r1, r2}
    Classifiers = {d}
    Chats = {c}
    Free = free
    BatchSize = 1
    MaxCandidates = 2
    MaxEmails = 1
    MaxTarget = 2
    MaxFaults = 1
SYMMETRY RunnerSymmetry
INVARIANTS TypeOK TimelineFollowsVerdict EachMailOncePerRun StatusTellsRun
PROPERTIES IndexSpec
