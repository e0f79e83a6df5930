SPECIFICATION GameSpec
CONSTANTS
    HORIZONTAL_SIZE = 3
    VERTICAL_SIZE = 8
    JUMP_MIN_FORCE = 3
    GAME_TICK = 2
    NewRows <- MCNewRows
    MaxLag = 5
INVARIANTS PositionInRange ScreenShowsObstacles
PROPERTIES MovesSmoothly
