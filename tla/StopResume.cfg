\* Two process numbers, used again and again, and two or more events.
SPECIFICATION Spec
CONSTANTS
    Proc = {1, 2}
    Hit = {1, 2}
    Confs <- MCConfs
INVARIANTS TypeOK StoppedAreListed StoppedHaveReason
PROPERTIES AutoResumed PromptResumes
CHECK_DEADLOCK FALSE
