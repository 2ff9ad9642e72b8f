SPECIFICATION FairSpec
CONSTANT MaxFaults = 0
PROPERTY SignalEnds
CHECK_DEADLOCK FALSE
