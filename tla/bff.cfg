CONSTANTS
    Jobs = {j1, j2}
    Threshold = 2
SPECIFICATION FairSpec
INVARIANTS TypeOK DoneIsDone EffectsInOrder SettingsAreKept
PROPERTY EveryUserHears
CHECK_DEADLOCK FALSE
