SPECIFICATION LiveSpec
CONSTANTS
    Starter = {s1, s2}
    Drainer = {d1}
    None = None
PROPERTY AdmittedContinues
