SPECIFICATION Spec
CONSTANTS
    Accounts = {home, work}
    Requests = {r1, r2}
    States = {s1, s2}
    None = none
    Free = free
    Inputs <- SomeInputs
    MaxGrants = 2
    MaxUpdates = 2
    MaxFaults = 1
SYMMETRY Interchangeable
INVARIANTS
    TypeOK
    CredentialsAccounted
    ReportsHold
