CONSTANTS
    Motors = {"m"}
    TimerMotors = {"m"}
    AutoMotors = {}
    BootMotor = "m"
    min_sps <- MCMinSps
    max_sps <- MCMaxSps
    sps_inc <- MCSpsInc
    INT32_MAX = 8
    UINT16_MAX = 7
    Requests <- AnyM
SPECIFICATION FairSpec
PROPERTY ReadyAgain
