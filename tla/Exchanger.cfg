CONSTANTS
    Ranks = {0, 1}
    GridIDs = {1, 2, 3}
    Placements = {{0}, {1}, {0, 1}}
    Pairs <- Chain
    MFlags = {"EDIT_M_EXTENTS", "EDIT_M_DESTINATIONS"}
    NFlags = {"EDIT_N_POINTS", "EDIT_N_SOURCES"}
    EditsMade <- OneOfEach
    Resized <- OneOfEachSide
    ExchangesMade <- OneOfEachKind
    MaxCleared = 2
SPECIFICATION Spec
INVARIANT EntriesInOrder
INVARIANT DerivedFollowsEdits
INVARIANT RecordsAgree
INVARIANT NoEditForgotten
INVARIANT ListenersFindTheirWay
