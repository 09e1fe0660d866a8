SPECIFICATION LiveSpec
CONSTANTS
    Starter = {s1, s2}
    Drainer = {d1, d2}
    None = None
INVARIANTS TypeOK StoppedIsQuiet OneStart PausedIsQuiet ResumedIsArmed
PROPERTY StartsEnd
