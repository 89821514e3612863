\* One lost answer.
CONSTANT MaxLost = 1
SPECIFICATION Spec
INVARIANT RetryEndsWithAcceptance
\* The command is over at the end.
CHECK_DEADLOCK FALSE
