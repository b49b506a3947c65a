SPECIFICATION Spec
CONSTANTS
    Workers = {w1, w2}
    WorkCapacity = 2
    OutcomeCapacity = 2
    First = 1
    Input <- Suffix
    Faults = {"start", "input", "open", "close", "execute", "publish", "acknowledge"}
    MaxInterrupts = 2
INVARIANTS SlotsMakeRoom WorkIsAccounted HeadOfLine ReturnIsComplete
PROPERTIES ImplementsOrderedPublication CallEnds
CHECK_DEADLOCK FALSE
