CONSTANTS
    Origin = {o1, o2}
    NoOrigin = NoOrigin
    Guarded = {put, custom}
SPECIFICATION FairSpec
INVARIANTS ForeignKeptOut ReadsDecided
PROPERTIES WritesGetThrough
