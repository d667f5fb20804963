SPECIFICATION FairSpec
CONSTANTS
    NumLoads = 3
    SealsPerLoad = 1
    SectorsPerSeal = 1
    Cuts = {0,1,2}
    MaxForks = 2
    MaxPrunes = 0
    MaxTimeouts = 0
    MaxRestarts = 1
PROPERTY CompleteSealsGetSealed
INVARIANTS
    
    CompleteSealsQueued
