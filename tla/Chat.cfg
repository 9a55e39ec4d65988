SPECIFICATION ChatSpec
CONSTANTS
    Mail = {1, 2}
    Tasks = {r1, r2, processing}
    Free = free
    MaxEmails = 1
    Applications = {"a"}
    Items = {1, 2}
    Owner <- OneOwner
    FromMail = {1}
    Types = {"recurring_feedback"}
    Limits = {1, 2}
    Generators = {g}
    Absent = absent
    DefaultLimit = 2
    Requests = {r1, r2}
    Turns = {t1}
    Questions <- Wordings
    Mentions = {1, 2}
    Company <- Companies
    Asked = "asked"
    Outbound = {2}
    None = none
SYMMETRY RequestSymmetry
CONSTRAINT Bounded
INVARIANTS TurnAnsweredOnce FreshIsCurrent
PROPERTIES ReconcileIsExact KeepsEligibleMail AnswersHold
