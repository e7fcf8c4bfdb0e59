CONSTANTS
    Motors = {"a", "m"}
    TimerMotors = {"a", "m"}
    AutoMotors = {"a"}
    BootMotor = "m"
    min_sps <- MCMinSps
    max_sps <- MCMaxSps
    sps_inc <- MCSpsInc
    INT32_MAX = 3
    UINT16_MAX = 7
    Requests <- AnyRequests
SPECIFICATION Spec
INVARIANTS
    TypeOK
    RunningImpliesMoving
    LandsNearTarget
    SymmetricRamp
    PinsMatch
PROPERTY PlanIsFixed
