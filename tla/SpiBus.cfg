SPECIFICATION Spec
CONSTANTS
    Lengths = {1, 2, 3}
    HandlerTransfers = 2
    Handlers = 2
INVARIANTS
    TypeOK
    RestsBetween
    AloneIsExact
    TailIsUnheard
PROPERTIES
    WaitEnds
