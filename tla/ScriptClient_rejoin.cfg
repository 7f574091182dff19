SPECIFICATION FairSpec
CONSTANTS
    Moves = 3
    SubCap = 6
    Scripts <- MCWholeScript
    MaxClients = 2
PROPERTY RejoinedScriptEnds
CHECK_DEADLOCK FALSE
