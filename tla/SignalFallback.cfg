CONSTANTS
    NumProcs = 4
    MaxUses = 3
SPECIFICATION FairSignalSpec
PROPERTY ImplementsSignal
PROPERTY EveryUseCompletes
