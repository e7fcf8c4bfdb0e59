CONSTANTS
    Periods = {1, 3, 5}
    StepMax = 8
    Delays = {1, 4}
    MaxLate = 6
SPECIFICATION TimersFairSpec
INVARIANTS
    StepsInTime
    DelayLasts
PROPERTIES
    Overflows
