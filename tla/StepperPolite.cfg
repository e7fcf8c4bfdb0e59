CONSTANTS
    Motors = {"a", "m"}
    TimerMotors = {"a", "m"}
    AutoMotors = {"a"}
    BootMotor = "m"
    min_sps <- MCMinSps
    max_sps <- MCMaxSps
    sps_inc <- MCSpsInc
    INT32_MAX = 8
    UINT16_MAX = 7
    Requests <- PoliteRequests
    AskedMotors = {"a", "m"}
SPECIFICATION StatusFairSpec
INVARIANTS
    AutoPoweredWhileRunning
    StatusExact
PROPERTIES
    ImplementsMotion
    CompletesMotion
