CONSTANT MaxMtime = 6
SPECIFICATION FairDocSpec
INVARIANTS
    FreshUnlessRaced
    ResolveTriesAgain
PROPERTY RequestsEnd
