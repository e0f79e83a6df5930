------------------------------- MODULE Game -------------------------------
(***************************************************************************)
(* The rules of the dinosaur game, src/Userland/c/game.c: the character    *)
(* that jumps, the obstacles that come nearer, what is painted of them,    *)
(* and the menu.  The processes around it are in module Programs.          *)
(*                                                                         *)
(* Times are kept as ages: jumpAge is now - jumpStartTime and obstacleAge  *)
(* is now - lastObstacleUpdate, in any unit of which GAME_TICK is a        *)
(* multiple.  A column of obstacle[][] is the row that holds its obstacle, *)
(* or NoObstacle: update() never puts two in one column.                   *)
(***************************************************************************)
EXTENDS Integers

CONSTANTS
    HORIZONTAL_SIZE, VERTICAL_SIZE, JUMP_MIN_FORCE,
    GAME_TICK,      \* units of time in 100 ms
    NewRows,        \* the rows the pseudo random obstacles come in, NoObstacle included
    MaxLag          \* most time from one update to the next
NoObstacle == -1
OBSTACLE_LAG_MULTIPLIER == 2

ASSUME GameAssumption ==
    /\ HORIZONTAL_SIZE \in Nat \ {0} /\ VERTICAL_SIZE \in Nat /\ VERTICAL_SIZE >= 8
    /\ JUMP_MIN_FORCE \in 1 .. VERTICAL_SIZE - 3
    /\ GAME_TICK \in Nat \ {0} /\ MaxLag \in Nat
    /\ NewRows \subseteq {NoObstacle} \cup 0 .. VERTICAL_SIZE - 3

VARIABLES
    state,          \* "ground", "jumping" or "air"
    falling, jumpForce, posY, jumpAge,
    obstacle,       \* column -> row of its obstacle, or NoObstacle
    obstacleAge,
    red,            \* the <<column, row>> painted red, from column 1 on
    playing,        \* "game", "menu" or "over"
    lag,            \* time since the last update
    menuSeen        \* the menu has been opened (history)

character == <<state, falling, jumpForce, posY, jumpAge>>
field     == <<obstacle, obstacleAge, red>>
ruleVars  == <<character, field, playing, lag, menuSeen>>

Columns == 0 .. HORIZONTAL_SIZE - 1

GameInit ==
    /\ state = "ground" /\ falling = FALSE /\ jumpForce = 4 /\ posY = 1 /\ jumpAge = 0
    /\ obstacle = [i \in Columns |-> NoObstacle] /\ obstacleAge = 0 /\ red = {}
    /\ playing = "game" /\ lag = 0 /\ menuSeen = FALSE

(* Time passes; the scheduler gives the game its turn within MaxLag.  The  *)
(* age of a jump is not read on the ground, and stands still.              *)
Tick ==
    /\ playing = "game" /\ lag < MaxLag
    /\ lag' = lag + 1
    /\ obstacleAge' = obstacleAge + 1
    /\ jumpAge' = IF state = "ground" THEN jumpAge ELSE jumpAge + 1
    /\ UNCHANGED <<state, falling, jumpForce, posY, obstacle, red, playing, menuSeen>>

-----------------------------------------------------------------------------
(* The character: a record c of the fields of gameData that move it.       *)
Character == [state |-> state, falling |-> falling, force |-> jumpForce, posY |-> posY, age |-> jumpAge]

TakeOff(c) == IF c.state = "jumping" /\ c.age > 0 THEN [c EXCEPT !.state = "air"] ELSE c

(* jump(): its own call of time() may come later than update()'s.          *)
MayJumpHigher(c)  == ~c.falling /\ c.force <= VERTICAL_SIZE - 3
MayJumpFalling(c) == c.force < VERTICAL_SIZE - 3
MayJump(c)        == ~c.falling /\ c.force < VERTICAL_SIZE - 3

jump(c, late) ==
    CASE ~MayJump(c) -> c
      [] MayJump(c) /\ c.state = "ground" ->
           [c EXCEPT !.force = JUMP_MIN_FORCE, !.state = "jumping", !.age = -late]
      [] MayJump(c) /\ c.state # "ground" -> [c EXCEPT !.force = c.force + 1]

Ticks(c) == c.age \div GAME_TICK

(* The height of a flight, and whether it has begun to fall.               *)
Rising(c) == Ticks(c) <= c.force
Height(c) == IF Rising(c) THEN 1 + Ticks(c)
             ELSE IF 1 + 2 * c.force < Ticks(c) THEN 1
             ELSE 1 + 2 * c.force - Ticks(c)
Falls(c)  == c.falling \/ (~Rising(c) /\ 1 + 2 * c.force >= Ticks(c))
Clamp(y)  == IF y > VERTICAL_SIZE - 3 THEN VERTICAL_SIZE - 2 ELSE y

Fly(c) ==
    IF c.state # "air" \/ Ticks(c) <= 0 THEN c
    ELSE IF Clamp(Height(c)) <= 1
         THEN [state |-> "ground", falling |-> FALSE, force |-> 0, posY |-> 1, age |-> 0]
         ELSE [c EXCEPT !.falling = Falls(c), !.posY = Clamp(Height(c))]

Moved(jumps, late) ==
    LET c == TakeOff(Character) IN Fly(IF jumps THEN jump(c, late) ELSE c)

-----------------------------------------------------------------------------
(* The obstacles come k columns nearer; the k last columns get a new one.  *)
Shift == (obstacleAge \div (GAME_TICK * OBSTACLE_LAG_MULTIPLIER)) % HORIZONTAL_SIZE
Shifted(k, row) == [i \in Columns |-> IF i + k < HORIZONTAL_SIZE THEN obstacle[i + k] ELSE row]

Cells(o) == {<<i, o[i]>> : i \in {i \in Columns : i # 0 /\ o[i] # NoObstacle}}

(* Only the cells that change are painted, and never the first column, which*)
(* is painted anew by every update.                                        *)
RepaintedRedOnly(o) == red \cup (Cells(o) \ Cells(obstacle))
Repainted(o) == (red \ (Cells(obstacle) \ Cells(o))) \cup (Cells(o) \ Cells(obstacle))

Advance(o) ==
    IF Shift = 0
    THEN /\ o = obstacle
         /\ UNCHANGED obstacleAge
    ELSE /\ \E row \in NewRows : o = Shifted(Shift, row)
         /\ obstacleAge' = 0

Collides(o, y) == o[0] \in y - 1 .. y + 1

Land(c) ==
    /\ state' = c.state /\ falling' = c.falling /\ jumpForce' = c.force
    /\ posY' = c.posY /\ jumpAge' = c.age

(* update(): messages is what isPlayerJumping found in the queue.  A       *)
(* collision ends the game before the menu is looked at.                   *)
Fields == {Shifted(Shift, row) : row \in NewRows} \cup {obstacle}
Update(messages, late) ==
    /\ playing = "game"
    /\ lag' = 0
    /\ LET c == Moved("jump" \in messages, late) IN
       \E o \in Fields :
          /\ Land(c)
          /\ Advance(o) /\ obstacle' = o
          /\ \/ Collides(o, c.posY) /\ playing' = "over" /\ red' = {} /\ UNCHANGED menuSeen
             \/ /\ ~Collides(o, c.posY) /\ "menu" \in messages
                /\ playing' = "menu" /\ red' = {} /\ menuSeen' = TRUE
             \/ /\ ~Collides(o, c.posY) /\ "menu" \notin messages
                /\ playing' = "game" /\ red' = Repainted(o) /\ UNCHANGED menuSeen

(* A message in the menu: ESC goes on with the game, at the ages it had, on*)
(* a blank screen; e ends it; anything else leaves the menu as it is.      *)
MenuResume ==
    /\ playing = "menu" /\ playing' = "game"
    /\ UNCHANGED <<character, field, lag, menuSeen>>
MenuExit ==
    /\ playing = "menu" /\ playing' = "over"
    /\ UNCHANGED <<character, field, lag, menuSeen>>

Updates ==
    \E messages \in SUBSET {"jump", "menu"} :
       \E late \in IF "jump" \in messages THEN 0 .. 1 ELSE {0} : Update(messages, late)
Over    == playing = "over" /\ UNCHANGED ruleVars
GameNext == Tick \/ Updates \/ MenuResume \/ MenuExit \/ Over

GameSpec == GameInit /\ [][GameNext]_ruleVars

-----------------------------------------------------------------------------
(* The centre of the character is in rows 1 to VERTICAL_SIZE - 2, as the   *)
(* comment of game.c:58-61 says, and a jump's force never takes it out.    *)
PositionInRange ==
    /\ posY \in 1 .. VERTICAL_SIZE - 2 /\ jumpForce \in 0 .. VERTICAL_SIZE - 3
    /\ falling => state = "air"
    /\ state = "ground" => posY = 1

(* Whatever is red ahead of the character is an obstacle, and as long as the*)
(* menu was never opened every obstacle is red: painting only the cells that*)
(* change is enough.  (The menu clears the screen; the obstacles behind it *)
(* come back only when they move to a cell that held none.)                *)
ScreenShowsObstacles ==
    /\ red \subseteq Cells(obstacle)
    /\ playing = "game" /\ ~menuSeen => red = Cells(obstacle)

(* However late the updates come and whenever the player asks for more     *)
(* force, the character moves at most a row per game tick, and once it falls*)
(* it does not rise again before it lands.                                 *)
Distance(a, b) == IF a < b THEN b - a ELSE a - b
MovesSmoothly ==
    [][ /\ Distance(posY, posY') <= lag \div GAME_TICK + 1
        /\ falling /\ falling' => posY' <= posY ]_ruleVars
=============================================================================
