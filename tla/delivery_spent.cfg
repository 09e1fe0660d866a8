CONSTANTS
    cli = cli
    gateway = gateway
    Process = {cli, gateway}
    Recoverer = {gateway}
    Modes <- AllModes
    MaxClaims = 6
    MaxReplay = 1
    MaxRetries = 1
    MaxCrashes = 2
    MaxFaults = 0
SPECIFICATION LiveSpec
PROPERTY SpentLeavesQueue
CHECK_DEADLOCK FALSE
