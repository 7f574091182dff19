SPECIFICATION Spec
CONSTANTS
    None = None
    Conns = {c1, c2}
    cmdChanSize = 3
    subChanSize = 1
    outChSize = 1
    ShutsDown = FALSE
PROPERTY NewestConnectionStays
CHECK_DEADLOCK FALSE
