CONSTANTS
 Bridge = {"DCC"}
 IgnoreTime = 3
 WatchTime = 4
 InrushTime = 3
 VerifyTime = 2
 Packet = 1
 VerifyEdges = 2
 SkipItrip = FALSE
 ItripMax = 8
 Grace = 3
 EdgeSlots = 6
 MaxLate = 3
 Resume = TRUE
 MaxSwitches = 1
LastingOn = {}
SPECIFICATION Spec
INVARIANTS PatternEndsWithPower
CHECK_DEADLOCK FALSE
