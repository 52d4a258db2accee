CONSTANTS
    e1 = e1  e2 = e2
    p1 = p1  p2 = p2
    x = x  y = y
    None = None
    Edits <- TwoEdits
    Puts <- TwoPuts
    Texts <- TwoTexts
    Foreign <- HostContents
    MaxOther = 1
SPECIFICATION Spec
INVARIANTS
    TypeOK
    SerialWhenDisjoint
CHECK_DEADLOCK FALSE
