CONSTANTS
    Ranks = {0, 1}
    GridIDs = {1, 2, 3}
    Placements = {{0}, {1}, {0, 1}}
    Pairs <- Ring
    MFlags = {"EDIT_M_EXTENTS", "EDIT_M_DESTINATIONS"}
    NFlags = {"EDIT_N_POINTS", "EDIT_N_SOURCES"}
    EditsMade <- NoEdits
    Resized <- NoEdits
    ExchangesMade <- NoExchanges
    MaxCleared = 3
SPECIFICATION Spec
INVARIANT NoneAlreadyExists
CHECK_DEADLOCK FALSE
