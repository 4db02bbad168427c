CONSTANTS
    Ranks = {r1, r2}
    NumCalls = 2
SPECIFICATION FairSpec
INVARIANT ResultIsTranspose
PROPERTY EveryCallReturns
PROPERTY ImplementsExchange
