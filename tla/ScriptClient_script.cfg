SPECIFICATION FairSpec
CONSTANTS
    Moves = 3
    SubCap = 2
    Scripts <- MCScripts
    MaxClients = 2
INVARIANTS
    SuccessMeansGameOver
    RunningSessionRefusesNothing
    QuietProgramIsUpToDate
PROPERTIES
    ActionFitsTable
    ScriptEnds
CHECK_DEADLOCK FALSE
