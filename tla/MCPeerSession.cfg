CONSTANTS
    SubCount = 2
    PipelineCap = 3
    TimeoutLimit = 3
    MaxBacklog = 1
    MaxFaults = 1
SPECIFICATION FairSpec
INVARIANTS TypeOK NoStrandedWrite ChokeAgreement InterestAgreement
PROPERTY CompletesOrStarves
