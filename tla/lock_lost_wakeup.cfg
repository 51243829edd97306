\* One writer, a reader and a reader with a predicate, under strong fairness.
SPECIFICATION FairSpec
CONSTANTS
    manager = manager
    manager2 = manager2
    sender = sender
    program = program
    Writers = {manager}
    Readers = {sender, program}
    Needed <- MCNeeded
    Changes = {1}
    MaxViews = 1
CHECK_DEADLOCK FALSE
PROPERTY ReaderReturns
