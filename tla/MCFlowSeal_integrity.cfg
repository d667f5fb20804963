SPECIFICATION Spec
CONSTANTS
    NumLoads = 1
    SealsPerLoad = 2
    SectorsPerSeal = 2
    Cuts = {0,1,2,3}
    MaxForks = 2
    MaxPrunes = 1
    MaxTimeouts = 1
    MaxRestarts = 1
INVARIANT TypeOK
 
INVARIANT SealedSealsAreFull
PROPERTY SealingKeepsContent
