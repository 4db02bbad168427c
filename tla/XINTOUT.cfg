SPECIFICATION Spec
CONSTANTS
    NumRanks = 3
    Files <- GoodAndBad
INVARIANT ImportedAsWritten
INVARIANT AllThrowOrNone
INVARIANT SomebodyGoesOn
