CONSTANT MaxMtime = 4
SPECIFICATION DocSpec
INVARIANT PreviousDocumentServed
