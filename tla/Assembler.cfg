CONSTANTS
    Ranks = {0, 1}
    GridIDs = {1, 2}
    Placements = {{0}, {0, 1}}
    Edits = {"EDIT_FLAGS"}
SPECIFICATION Spec
INVARIANT OptionsFollowGrids
INVARIANT ChangesNoted
INVARIANT RecordsAgree
INVARIANT NoEditForgotten
PROPERTY NoWorkForTheGone
