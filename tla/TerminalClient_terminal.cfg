SPECIFICATION Spec
CONSTANTS
    Moves = 2
    SubCap = 2
    Keys = 2
CONSTRAINT FewTimers
INVARIANTS
    SettledViewIsCurrent
    HumanCanAct
    OneSubmissionPerView
    RunningSessionIsNotFatal
    FinalBoardIsShown
    CountdownIsDriven
CHECK_DEADLOCK FALSE
