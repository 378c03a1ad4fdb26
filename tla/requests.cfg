\* Two handlers, two changes beside them.
SPECIFICATION Spec
CONSTANTS
    Labels = {l1}
    Handlers = {h1, h2}
    None = None
    MaxEvents = 2
\* Once nobody asks for anything more, the servers wait.
CHECK_DEADLOCK FALSE
INVARIANTS EventsTellWhatHappened ForcedSyncsAreAsked
PROPERTIES EveryPushIsSynced
