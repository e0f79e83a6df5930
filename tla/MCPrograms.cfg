SPECIFICATION FairSpec
CONSTANTS
    Lines = {"game", "piano", "poweroff", "beep", "mq", "quiet", "reboot", "unknown"}
    Keys = {"esc", "e", "two"}
    Songs <- MCSongs
    MaxLines = 2
    MaxGames = 1
    MaxKeys = 3
    StdinRoom = 2
    RawRoom = 1
    SongRoom = 2
INVARIANTS LeavesNothingBehind RawReaderIsHeard
 
CHECK_DEADLOCK FALSE
