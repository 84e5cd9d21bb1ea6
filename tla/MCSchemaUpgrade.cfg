SPECIFICATION SchemaSpec
CONSTANTS
    Openers = {w1, w2}
INVARIANTS
    CurrentIsGuarded
CHECK_DEADLOCK FALSE
