SPECIFICATION Spec
CONSTANTS
    Models = {m1, m2}
    Preloaded = {m1, m2}
    Requests = {r1}
    Streams = {s1}
    Settings = {cfg, own}
    Unset = unset
    Configured = cfg
    Engines = {e1, e2, e3}
    NoEngine = none
    Deleted = deleted
    Unloaders = {u1, u2}
    BatchSize = 2
SYMMETRY Interchangeable
INVARIANTS AnswersFromOwnModel InferenceIsSerialised SingleModelLoaded LoadedHasEngine
CHECK_DEADLOCK FALSE
