SPECIFICATION RemindersSpec
CONSTANTS
    Bill = {i1, i2}
    Run = {r1, r2}
    Day <- Days
    Due <- DueOnDay7
SYMMETRY Interchangeable
INVARIANTS
    RemindedOnce
    RemindersAccountedFor
CHECK_DEADLOCK FALSE
