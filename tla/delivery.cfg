CONSTANTS
    cli = cli
    gateway = gateway
    Process = {cli, gateway}
    Recoverer = {gateway}
    Modes <- AllModes
    MaxClaims = 8
    MaxReplay = 2
    MaxRetries = 2
    MaxCrashes = 1
    MaxFaults = 1
SPECIFICATION LiveSpec
INVARIANTS TypeOK SeenOnce EvidenceKept ReceiptTruthful
PROPERTY Settles
CHECK_DEADLOCK FALSE
