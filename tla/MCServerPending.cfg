SPECIFICATION Spec
CONSTANTS
    Models = {m1, m2}
    Preloaded = {}
    Requests = {r1, r2}
    Streams = {}
    Settings = {cfg, own}
    Unset = unset
    Configured = cfg
    Engines = {e1, e2}
    NoEngine = none
    Deleted = deleted
    Unloaders = {}
    BatchSize = 2
INVARIANT UnloadClearsPending
CHECK_DEADLOCK FALSE
