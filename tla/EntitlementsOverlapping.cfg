SPECIFICATION EntitlementsSpec
CONSTANTS
    Call = {c1, c2}
    Earlier = earlier
    Eval = {e1}
    Plan = {pro}
    None = none
SYMMETRY Interchangeable
INVARIANTS
    AnswerHeldUnlessTorn
    OverridesHold
CHECK_DEADLOCK FALSE
