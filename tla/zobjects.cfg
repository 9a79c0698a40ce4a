SPECIFICATION ObjSpec
CONSTANTS
    o1 = o1
    o2 = o2
    o3 = o3
    o4 = o4
    somewhere = somewhere
    elsewhere = elsewhere
    Nothing = Nothing
    Objects <- MCObjects
    Places <- MCPlaces
    StoryTree <- MCStoryTree
    StoryPlace = somewhere
    BranchOf <- MCBranchOf
    Outcomes <- MCOutcomes
INVARIANTS
    ObjTypeOK
    NeverLost
    ListsWhole
PROPERTIES
    ImplementsForest
    SavedGamesResume
SYMMETRY MCSymmetry
CHECK_DEADLOCK FALSE
