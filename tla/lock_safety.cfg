\* Two writers, a reader and a reader with a predicate.
SPECIFICATION Spec
CONSTANTS
    manager = manager
    manager2 = manager2
    sender = sender
    program = program
    Writers = {manager, manager2}
    Readers = {sender, program}
    Needed <- MCNeeded
    Changes <- MCChanges
    MaxViews = 2
CHECK_DEADLOCK FALSE
INVARIANT TypeOK
INVARIANT Exclusion
INVARIANT PredicateHolds
INVARIANT ReaderNotForgotten
