\* Four points over three ranks: the last rank owns none.
CONSTANTS
    NumProcs = 3
    TotalPoints = 4
    Layouts <- AllLayouts
SPECIFICATION Spec
INVARIANT StagesMatch
INVARIANT PartnersFound
INVARIANT MessagesMatch
INVARIANT ValuesArrive
