\* A tick and intervals of two or three units of time, a period of three.
SPECIFICATION Spec
CONSTANTS
    Tick = 2
    Interval <- Intervals
    Blocked = 1
    Cooldown = 3
    Period = 3
    Seed = 4
    MaxKills = 1
PROPERTIES
    NextOsWindowHasTopology
