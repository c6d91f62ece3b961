\* One letter; two deadlines or two deletions; a send that fails twice; one crash.
CONSTANTS
    Letter = {letter}
    MaxAttempts = 2
    MaxStatement = 2
    MaxRestart = 1
SPECIFICATION MCSpec
INVARIANTS
    OutboxIsTrue
    NoticeSurvivesSweep
PROPERTY MailSettles
CHECK_DEADLOCK FALSE
