SPECIFICATION FairSpec
CONSTANTS
    t1 = t1  t2 = t2  t3 = t3  t4 = t4  a = a  b = b  k = k
    NoKey = NoKey  None = None
    Txn = {t1, t2, t3, t4}
    Scope = {a, b}
    Key = {k}
    Requests <- Calls
INVARIANTS
    AnswersConverge
    HistoryExplained
PROPERTIES
    TerminalLeftOnlyByOverlap
    EveryCallEnds
CHECK_DEADLOCK FALSE
