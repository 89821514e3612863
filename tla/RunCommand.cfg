\* One command, two lost answers.
CONSTANT MaxLost = 2
SPECIFICATION FairSpec
INVARIANTS
    TypeOK
    SuccessIsFinal
    OrphansHaveACause
    StartedOnceUnlessLost
PROPERTY Returns
\* The command is over at the end.
CHECK_DEADLOCK FALSE
