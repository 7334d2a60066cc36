SPECIFICATION FairSpec
CONSTANTS
    Models = {m1}
    Preloaded = {}
    Requests = {r1, r2, r3}
    Streams = {s1}
    Settings = {cfg, own}
    Unset = unset
    Configured = cfg
    Engines = {e1}
    NoEngine = none
    Deleted = deleted
    Unloaders = {}
    BatchSize = 2
INVARIANTS AnswersHonourOwnSettings NobodyIsForgotten
PROPERTIES AnswerIsFinal EveryRequestIsAnswered
CHECK_DEADLOCK FALSE
