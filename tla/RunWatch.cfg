CONSTANTS MaxLogged = 3 MaxShown = 2 MaxDrops = 1 MaxFails = 1
SPECIFICATION WatchSpec
INVARIANT ShownIsLog
PROPERTY JoinsAgain
CHECK_DEADLOCK FALSE
