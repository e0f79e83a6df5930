---------------------------- MODULE UserlandProofs ----------------------------
(***************************************************************************)
(* What holds of the programs.  Of the rules of the game: its character    *)
(* stays in its rows and moves smoothly, for every size of the field, every*)
(* game tick, and however late and often update() runs; and the obstacles  *)
(* on the screen are those the game goes by.  Of the programs as processes:*)
(* what they leave behind, for any number of games, lines, keys and songs, *)
(* and in whatever order they run.                                         *)
(***************************************************************************)
EXTENDS Game, Programs, TLAPS

(* The fields of gameData that move the character have their types; what   *)
(* update() computes from them is a record of the same shape.              *)
Char == [state : {"ground", "jumping", "air"}, falling : BOOLEAN, force : Int, posY : Int, age : Int]

(* PositionInRange on such a record.                                       *)
InRange(c) ==
    /\ c.posY \in 1 .. VERTICAL_SIZE - 2 /\ c.force \in 0 .. VERTICAL_SIZE - 3
    /\ c.falling => c.state = "air"
    /\ c.state = "ground" => c.posY = 1

(* The part of the type invariant that matters to the character.           *)
Good(c) == c \in Char /\ InRange(c)

GameInv == Good(Character) /\ lag \in Int

(* Ticks are counted in integers.                                          *)
LEMMA TicksAreWhole ==
    ASSUME NEW c \in Char PROVE Ticks(c) \in Int
BY GameAssumption DEF Ticks, Char

(* The numbers of GameAssumption, as the provers want them.                *)
LEMMA Sizes == VERTICAL_SIZE \in Int /\ VERTICAL_SIZE >= 8 /\ JUMP_MIN_FORCE \in 1 .. VERTICAL_SIZE - 3
BY GameAssumption

(* To leave the ground changes neither height nor force.                   *)
LEMMA TakeOffIsGood ==
    ASSUME NEW c, Good(c) PROVE Good(TakeOff(c))
BY DEF TakeOff, Good, Char, InRange

(* A jump starts with a force that stays in the field, and adds to it as   *)
(* long as there is room for one row more.                                 *)
LEMMA JumpIsGood ==
    ASSUME NEW c, Good(c), NEW late \in 0 .. 1 PROVE Good(jump(c, late))
<1>1. CASE ~MayJump(c)
  BY <1>1 DEF jump
<1>2. CASE MayJump(c) /\ c.state = "ground"
  <2>1. jump(c, late) = [c EXCEPT !.force = JUMP_MIN_FORCE, !.state = "jumping", !.age = -late]
    BY <1>2 DEF jump
  <2>2. jump(c, late) = [state |-> "jumping", falling |-> c.falling, force |-> JUMP_MIN_FORCE,
                         posY |-> c.posY, age |-> -late]
    BY <2>1 DEF Good, Char
  <2>3. ~c.falling /\ c.falling \in BOOLEAN /\ c.posY \in 1 .. VERTICAL_SIZE - 2 /\ c.posY \in Int
    BY <1>2 DEF MayJump, Good, Char, InRange
  <2> QED BY <2>2, <2>3, Sizes DEF Good, Char, InRange
<1>3. CASE MayJump(c) /\ c.state # "ground"
  <2>1. jump(c, late) = [c EXCEPT !.force = c.force + 1]
    BY <1>3 DEF jump
  <2> QED BY <1>3, <2>1, Sizes DEF Good, Char, InRange, MayJump
<1> QED BY <1>1, <1>2, <1>3

(* A flight is cut off at the highest row, and one that is not above the   *)
(* first row has landed.                                                   *)
LEMMA FlyIsGood ==
    ASSUME NEW c, Good(c) PROVE Good(Fly(c))
<1> DEFINE y == Clamp(Height(c))
<1>1. Ticks(c) \in Int /\ c.force \in Int
  BY TicksAreWhole DEF Good, Char
<1>2. Height(c) \in Int
  BY <1>1 DEF Height, Rising
<1>3. y \in Int /\ y <= VERTICAL_SIZE - 2
  BY <1>2, Sizes DEF Clamp
<1>4. Falls(c) \in BOOLEAN
  BY DEF Falls, Good, Char
<1>5. CASE c.state # "air" \/ Ticks(c) <= 0
  BY <1>5 DEF Fly
<1>6. CASE c.state = "air" /\ ~(Ticks(c) <= 0) /\ y <= 1
  <2>1. Fly(c) = [state |-> "ground", falling |-> FALSE, force |-> 0, posY |-> 1, age |-> 0]
    BY <1>6 DEF Fly
  <2> QED BY <2>1, Sizes DEF Good, Char, InRange
<1>7. CASE c.state = "air" /\ ~(Ticks(c) <= 0) /\ ~(y <= 1)
  <2>1. Fly(c) = [c EXCEPT !.falling = Falls(c), !.posY = y]
    BY <1>7 DEF Fly
  <2> HIDE DEF y
  <2>2. Fly(c) = [state |-> "air", falling |-> Falls(c), force |-> c.force, posY |-> y, age |-> c.age]
    BY <1>7, <2>1 DEF Good, Char
  <2>3. c.force \in Int /\ c.force \in 0 .. VERTICAL_SIZE - 3 /\ c.age \in Int
    BY DEF Good, Char, InRange
  <2> QED BY <1>3, <1>4, <1>7, <2>2, <2>3, Sizes DEF Good, Char, InRange
<1> QED BY <1>5, <1>6, <1>7

(* A step of the character, on the ground or above it, keeps it in range.  *)
LEMMA MovedIsGood ==
    ASSUME Good(Character), NEW jumps \in BOOLEAN, NEW late \in 0 .. 1
    PROVE  Good(Moved(jumps, late))
BY TakeOffIsGood, JumpIsGood, FlyIsGood DEF Moved

(* The character starts on the ground.                                     *)
LEMMA InitGood == GameInit => GameInv
<1> SUFFICES ASSUME GameInit PROVE GameInv
  OBVIOUS
<1>1. Character = [state |-> "ground", falling |-> FALSE, force |-> 4, posY |-> 1, age |-> 0]
  BY DEF GameInit, Character
<1>2. Good(Character)
  BY <1>1, Sizes DEF Good, Char, InRange
<1> QED BY <1>2 DEF GameInit, GameInv

(* No step of the game takes the character out of the field.               *)
LEMMA StepGood == GameInv /\ [GameNext]_ruleVars => GameInv'
<1> SUFFICES ASSUME GameInv, [GameNext]_ruleVars PROVE GameInv'
  OBVIOUS
<1>1. CASE Tick
  <2>1. /\ lag' = lag + 1 /\ jumpAge' \in {jumpAge, jumpAge + 1}
        /\ UNCHANGED <<state, falling, jumpForce, posY>>
    BY <1>1 DEF Tick
  <2>2. jumpAge' \in Int
    BY <2>1 DEF GameInv, Good, Char, Character
  <2> QED BY <2>1, <2>2 DEF GameInv, Good, Char, InRange, Character
<1>2. ASSUME NEW messages \in SUBSET {"jump", "menu"}, NEW late \in 0 .. 1, Update(messages, late)
      PROVE  GameInv'
  <2> DEFINE c == Moved("jump" \in messages, late)
  <2>a. Good(Character) /\ ("jump" \in messages) \in BOOLEAN
    BY DEF GameInv
  <2>1. Good(c)
    BY <2>a, MovedIsGood, Zenon
  <2>2. Land(c) /\ lag' = 0
    BY <1>2 DEF Update
  <2> HIDE DEF c
  <2>3. Character' = [state |-> c.state, falling |-> c.falling, force |-> c.force,
                      posY |-> c.posY, age |-> c.age]
    BY <2>2 DEF Land, Character
  <2>4. Character' = c
    BY <2>1, <2>3 DEF Good, Char
  <2> QED BY <2>1, <2>2, <2>4 DEF GameInv
<1>3. CASE MenuResume \/ MenuExit \/ Over
  BY <1>3 DEF MenuResume, MenuExit, Over, ruleVars, character, GameInv, Character
<1>4. CASE UNCHANGED ruleVars
  BY <1>4 DEF ruleVars, character, GameInv, Character
<1> QED BY <1>1, <1>2, <1>3, <1>4 DEF GameNext, Updates

(* The character is always in rows 1 to VERTICAL_SIZE - 2 and a jump never *)
(* gets a force that would take it out (game.c:154-213).                   *)
THEOREM CharacterStaysInField == GameSpec => []PositionInRange
<1>1. GameInv => PositionInRange
  BY DEF GameInv, Good, Char, InRange, Character, PositionInRange
<1> QED BY <1>1, InitGood, StepGood, PTL DEF GameSpec

-----------------------------------------------------------------------------
(* Painting.  What is needed beside the property: the menu is only open    *)
(* when it has been seen.                                                  *)
Painted == ScreenShowsObstacles /\ (playing = "menu" => menuSeen)

(* Nothing is red at first, and there is no obstacle.                      *)
LEMMA InitPainted == GameInit => Painted
<1> SUFFICES ASSUME GameInit PROVE Painted
  OBVIOUS
<1>1. Cells(obstacle) = {}
  BY DEF GameInit, Cells
<1> QED BY <1>1 DEF GameInit, Painted, ScreenShowsObstacles

(* To paint the cells that change keeps red what must be red, and only it. *)
LEMMA RepaintingShows ==
    ASSUME red \subseteq Cells(obstacle), NEW o
    PROVE  /\ Repainted(o) \subseteq Cells(o)
           /\ red = Cells(obstacle) => Repainted(o) = Cells(o)
BY DEF Repainted

(* An update paints what it moves, or clears the screen.                   *)
LEMMA StepPainted == Painted /\ [GameNext]_ruleVars => Painted'
<1> SUFFICES ASSUME Painted, [GameNext]_ruleVars PROVE Painted'
  OBVIOUS
<1>1. ASSUME UNCHANGED <<obstacle, red, playing, menuSeen>> PROVE Painted'
  BY <1>1 DEF Painted, ScreenShowsObstacles, Cells
<1>2. CASE Tick
  BY <1>1, <1>2 DEF Tick
<1>3. ASSUME NEW messages \in SUBSET {"jump", "menu"}, NEW late \in 0 .. 1, Update(messages, late)
      PROVE  Painted'
  <2>1. playing = "game" /\ red \subseteq Cells(obstacle) /\ (~menuSeen => red = Cells(obstacle))
    BY <1>3 DEF Update, Painted, ScreenShowsObstacles
  <2>2. PICK o \in Fields :
          /\ obstacle' = o
          /\ \/ playing' = "over" /\ red' = {}
             \/ playing' = "menu" /\ red' = {} /\ menuSeen' = TRUE
             \/ playing' = "game" /\ red' = Repainted(o) /\ menuSeen' = menuSeen
    BY <1>3 DEF Update
  <2>3. Cells(obstacle)' = Cells(o)
    BY <2>2 DEF Cells
  <2> QED BY <2>1, <2>2, <2>3, RepaintingShows DEF Painted, ScreenShowsObstacles
<1>4. CASE MenuResume \/ MenuExit
  <2>1. UNCHANGED <<obstacle, red, menuSeen>> /\ playing = "menu"
    BY <1>4 DEF MenuResume, MenuExit, field
  <2>2. menuSeen /\ red \subseteq Cells(obstacle)
    BY <2>1 DEF Painted, ScreenShowsObstacles
  <2>3. Cells(obstacle)' = Cells(obstacle)
    BY <2>1 DEF Cells
  <2> QED BY <2>1, <2>2, <2>3 DEF Painted, ScreenShowsObstacles
<1>5. CASE Over \/ UNCHANGED ruleVars
  BY <1>1, <1>5 DEF Over, ruleVars, field
<1> QED BY <1>2, <1>3, <1>4, <1>5 DEF GameNext, Updates

(* The screen shows every obstacle and nothing else ahead of the character,*)
(* until the menu is opened, and then nothing that is not an obstacle,     *)
(* although only the cells that change are painted (game.c:232-242).       *)
THEOREM PaintingChangesIsEnough == GameSpec => []ScreenShowsObstacles
<1>1. Painted => ScreenShowsObstacles
  BY DEF Painted
<1> QED BY <1>1, InitPainted, StepPainted, PTL DEF GameSpec
-----------------------------------------------------------------------------
(* The flight.  Begun is the character as the last update() left it: time  *)
(* has only aged it.                                                       *)
Begun == [Character EXCEPT !.age = @ - lag]

(* Where an update leaves it: on its way up before its first tick, or at   *)
(* the height of its force and age, falling just where the height does.    *)
OnCourse(c) ==
    /\ c.state = "jumping" => c.posY = 1 /\ c.age <= 0
    /\ c.state = "air" => /\ Ticks(c) >= 0 /\ c.posY = Clamp(Height(c))
                          /\ c.falling <=> ~Rising(c)

Flight == lag \in Nat /\ OnCourse(Begun)

(* The ticks of two times add up to those of the sum, or one more.         *)
LEMMA TicksAdd ==
    ASSUME NEW a \in Int, NEW l \in Nat
    PROVE  /\ a \div GAME_TICK \in Int /\ l \div GAME_TICK \in Nat
           /\ (a + l) \div GAME_TICK \in Int
           /\ a \div GAME_TICK <= (a + l) \div GAME_TICK
           /\ (a + l) \div GAME_TICK <= a \div GAME_TICK + l \div GAME_TICK + 1
           /\ a <= 0 => a \div GAME_TICK <= 0
           /\ a >= 0 => a \div GAME_TICK >= 0
           /\ a <= 0 => (a + l) \div GAME_TICK <= l \div GAME_TICK
<1> DEFINE tk == GAME_TICK
<1>1. tk \in Int /\ tk > 0
  BY GameAssumption
<1> HIDE DEF tk
<1>2. \A n \in Int : /\ n \div tk \in Int /\ (n \div tk) * tk <= n /\ n < (n \div tk) * tk + tk
  BY <1>1
<1>3. \A p, q \in Int : p * tk < q * tk + tk => p <= q
  <2> SUFFICES ASSUME NEW p \in Int, NEW q \in Int, p * tk < q * tk + tk, p > q PROVE FALSE
    OBVIOUS
  <2>1. p = q + 1 + (p - q - 1) /\ p - q - 1 \in Nat
    OBVIOUS
  <2>2. (p - q - 1) * tk >= 0
    BY <1>1, <2>1
  <2>3. p * tk = q * tk + tk + (p - q - 1) * tk
    BY <1>1
  <2> QED BY <1>1, <2>2, <2>3
<1> DEFINE A == a \div tk
           L == l \div tk
           X == (a + l) \div tk
<1>4. A \in Int /\ L \in Int /\ X \in Int /\ A * tk <= a /\ a < A * tk + tk /\ L * tk <= l /\ l < L * tk + tk
      /\ X * tk <= a + l /\ a + l < X * tk + tk
  BY <1>2
<1> HIDE DEF A, L, X
<1>5. A <= X
  BY <1>1, <1>3, <1>4
<1>6. X <= A + L + 1
  <2>1. (A + L + 1) * tk = A * tk + L * tk + tk
    BY <1>1, <1>4
  <2>2. X * tk \in Int /\ A * tk \in Int /\ L * tk \in Int
    BY <1>1, <1>4
  <2>3. X * tk < (A + L + 1) * tk + tk
    BY <1>1, <1>4, <2>1, <2>2
  <2> QED BY <1>3, <1>4, <2>3
<1>7. L >= 0
  <2>1. 0 * tk < L * tk + tk
    BY <1>1, <1>4
  <2> QED BY <1>3, <1>4, <2>1
<1>8. a <= 0 => A <= 0
  <2>1. a <= 0 => A * tk < 0 * tk + tk
    BY <1>1, <1>4
  <2> QED BY <1>3, <1>4, <2>1
<1>9. a >= 0 => A >= 0
  <2>1. a >= 0 => 0 * tk < A * tk + tk
    BY <1>1, <1>4
  <2> QED BY <1>3, <1>4, <2>1
<1>10. a <= 0 => X <= L
  <2>1. a <= 0 => X * tk < L * tk + tk
    BY <1>1, <1>4
  <2> QED BY <1>3, <1>4, <2>1
<1> QED BY <1>4, <1>5, <1>6, <1>7, <1>8, <1>9, <1>10 DEF A, L, X, tk

(* Height of the ticks and the force of a flight.                          *)
HeightOf(t, f) == IF t <= f THEN 1 + t ELSE IF 1 + 2 * f < t THEN 1 ELSE 1 + 2 * f - t

LEMMA HeightIsOf == \A c : Height(c) = HeightOf(Ticks(c), c.force)
BY DEF Height, Rising, HeightOf

(* A row at most for every tick, and down from the highest: below the first*)
(* row for one tick, where the flight ends.                                *)
LEMMA HeightMoves ==
    ASSUME NEW s \in Nat, NEW t \in Nat, NEW f \in Nat, s <= t, Clamp(HeightOf(s, f)) >= 1
    PROVE  /\ HeightOf(s, f) \in Int /\ HeightOf(t, f) \in Int /\ HeightOf(t, f) >= 0
           /\ Distance(Clamp(HeightOf(s, f)), Clamp(HeightOf(t, f))) <= t - s
           /\ s > f => Clamp(HeightOf(t, f)) <= Clamp(HeightOf(s, f))
<1>1. \A n \in Nat : /\ HeightOf(n, f) \in Int /\ HeightOf(n, f) >= 0
                     /\ n <= f => HeightOf(n, f) = 1 + n
                     /\ n > f => HeightOf(n, f) = 1 \/ HeightOf(n, f) = 1 + 2 * f - n
                     /\ n > f => HeightOf(n, f) >= 1 + 2 * f - n
                     /\ n > 1 + 2 * f => HeightOf(n, f) = 1
  BY DEF HeightOf
<1> DEFINE x == HeightOf(s, f)
           y == HeightOf(t, f)
<1>2. x \in Int /\ y \in Int /\ y >= 0 /\ x >= 1
  <2>1. x \in Int /\ y \in Int /\ y >= 0 /\ Clamp(x) >= 1
    BY <1>1
  <2> HIDE DEF x, y
  <2> QED BY <2>1, Sizes DEF Clamp
<1>3. y - x <= t - s /\ x - y <= t - s /\ (s > f => y <= x)
  <2>1. CASE s <= f
    BY <1>1, <1>2, <2>1
  <2>2. CASE s > f
    BY <1>1, <1>2, <2>2
  <2> QED BY <2>1, <2>2
<1> HIDE DEF x, y
<1>4. /\ Distance(Clamp(x), Clamp(y)) <= t - s
      /\ y <= x => Clamp(y) <= Clamp(x)
  BY <1>2, <1>3, Sizes DEF Clamp, Distance
<1> QED BY <1>2, <1>3, <1>4 DEF x, y

(* The flight goes on: s are the ticks it was at, or 0 if it just began.   *)
LEMMA FlyStaysOnCourse ==
    ASSUME NEW c, Good(c), c.state = "air", NEW s \in Nat, NEW n \in Int,
           s <= Ticks(c), Ticks(c) <= s + n,
           c.posY = Clamp(HeightOf(s, c.force)), c.falling <=> s > c.force
    PROVE  /\ OnCourse(Fly(c)) /\ Distance(c.posY, Fly(c).posY) <= n
           /\ c.falling /\ Fly(c).falling => Fly(c).posY <= c.posY
<1> DEFINE y == Clamp(Height(c))
<1>1. Ticks(c) \in Nat /\ c.force \in Nat /\ c.falling \in BOOLEAN
  BY TicksAreWhole, Sizes DEF Good, Char, InRange
<1>2. /\ Height(c) = HeightOf(Ticks(c), c.force) /\ HeightOf(Ticks(c), c.force) \in Int
      /\ HeightOf(Ticks(c), c.force) >= 0 /\ y \in Int
      /\ Distance(c.posY, y) <= n /\ (c.falling => y <= c.posY)
  <2>1. Height(c) = HeightOf(Ticks(c), c.force)
    BY HeightIsOf
  <2>2. PICK t \in Nat, f \in Nat : t = Ticks(c) /\ f = c.force
    BY <1>1
  <2>0. Clamp(HeightOf(s, f)) >= 1
    BY <2>2, Sizes DEF Good, InRange
  <2>3. /\ HeightOf(t, f) \in Int /\ HeightOf(t, f) >= 0
        /\ Distance(Clamp(HeightOf(s, f)), Clamp(HeightOf(t, f))) <= t - s
        /\ s > f => Clamp(HeightOf(t, f)) <= Clamp(HeightOf(s, f))
    BY <2>0, <2>2, HeightMoves
  <2>4. y = Clamp(HeightOf(t, f)) /\ c.posY = Clamp(HeightOf(s, f))
    BY <2>1, <2>2
  <2>5. c.posY \in Int /\ y \in Int
    BY <2>3, <2>4, Sizes DEF Good, Char, Clamp
  <2>6. Distance(c.posY, y) \in Int
    BY <2>5 DEF Distance
  <2> HIDE DEF y
  <2>7. Distance(c.posY, y) <= n
    BY <2>2, <2>3, <2>4, <2>6
  <2>8. c.falling => y <= c.posY
    BY <2>2, <2>3, <2>4
  <2> QED BY <2>1, <2>2, <2>3, <2>5, <2>7, <2>8
<1>3. CASE Ticks(c) <= 0
  <2>1. Fly(c) = c /\ s = 0 /\ Ticks(c) = 0
    BY <1>1, <1>3 DEF Fly
  <2>2. OnCourse(c)
    BY <1>1, <2>1, HeightIsOf DEF OnCourse, Rising
  <2>3. y = c.posY
    BY <2>1, HeightIsOf
  <2> QED BY <1>2, <2>1, <2>2, <2>3
<1>4. CASE ~(Ticks(c) <= 0) /\ y <= 1
  <2>1. Fly(c) = [state |-> "ground", falling |-> FALSE, force |-> 0, posY |-> 1, age |-> 0]
    BY <1>4 DEF Fly
  <2>2. c.posY >= 1 /\ c.posY \in Int
    BY Sizes DEF Good, Char, InRange
  <2>3. Distance(c.posY, 1) <= n
    <3> HIDE DEF y
    <3> QED BY <1>2, <1>4, <2>2 DEF Distance
  <2> QED BY <2>1, <2>3 DEF OnCourse
<1>5. CASE ~(Ticks(c) <= 0) /\ ~(y <= 1)
  <2>1. Fly(c) = [c EXCEPT !.falling = Falls(c), !.posY = y]
    BY <1>5 DEF Fly
  <2>2. Falls(c) <=> ~Rising(c)
    <3>1. ~Rising(c) => 1 + 2 * c.force >= Ticks(c)
      <4>1. ~Rising(c) /\ 1 + 2 * c.force < Ticks(c) => y = 1
        BY Sizes DEF Height, Clamp
      <4> QED BY <1>1, <1>5, <4>1
    <3>2. c.falling => ~Rising(c)
      BY <1>1 DEF Rising
    <3> QED BY <3>1, <3>2 DEF Falls
  <2> HIDE DEF y
  <2>3. /\ Fly(c).state = "air" /\ Fly(c).posY = y /\ Fly(c).force = c.force /\ Fly(c).age = c.age
        /\ Fly(c).falling = Falls(c)
    BY <2>1 DEF Good, Char
  <2>4. Ticks(Fly(c)) = Ticks(c)
    BY <2>3 DEF Ticks
  <2>5. Height(Fly(c)) = Height(c) /\ (Rising(Fly(c)) <=> Rising(c))
    BY <2>3, <2>4 DEF Height, Rising
  <2>6. OnCourse(Fly(c))
    BY <1>1, <2>2, <2>3, <2>4, <2>5 DEF OnCourse, y
  <2> QED BY <1>2, <2>3, <2>6
<1> QED BY <1>3, <1>4, <1>5

(* An update takes up the flight where the last one left it, lag later,    *)
(* with a row more of force if the player asks for it on the way up.       *)
LEMMA MovedStaysOnCourse ==
    ASSUME Good(Character), Flight, NEW jumps \in BOOLEAN, NEW late \in 0 .. 1
    PROVE  LET m == Moved(jumps, late) IN
           /\ OnCourse(m) /\ Distance(posY, m.posY) <= lag \div GAME_TICK + 1
           /\ falling /\ m.falling => m.posY <= posY
<1> DEFINE d == TakeOff(Character)
           c == IF jumps THEN jump(d, late) ELSE d
           n == lag \div GAME_TICK + 1
<1>1. /\ lag \in Nat /\ jumpAge \in Int /\ jumpForce \in Int /\ jumpForce >= 0 /\ posY \in Int /\ falling \in BOOLEAN
      /\ state \in {"ground", "jumping", "air"}
      /\ falling => state = "air"
      /\ state = "ground" => posY = 1
  BY Sizes DEF Flight, Good, Char, InRange, Character
<1>2. n \in Int /\ n >= 1
  BY <1>1, TicksAdd
<1>3. /\ state = "jumping" => posY = 1 /\ jumpAge - lag <= 0
      /\ state = "air" => LET t == (jumpAge - lag) \div GAME_TICK IN
             /\ t >= 0 /\ posY = Clamp(HeightOf(t, jumpForce)) /\ (falling <=> t > jumpForce)
  <2>1. /\ Begun.state = state /\ Begun.posY = posY /\ Begun.age = jumpAge - lag
        /\ Begun.falling = falling /\ Begun.force = jumpForce
    BY DEF Begun, Character
  <2>2. Ticks(Begun) = (jumpAge - lag) \div GAME_TICK
    BY <2>1 DEF Ticks
  <2>3. Ticks(Begun) \in Int
    BY <1>1, <2>2, TicksAdd
  <2> HIDE DEF Begun
  <2> QED BY <1>1, <2>1, <2>2, <2>3, HeightIsOf DEF Flight, OnCourse, Rising
<1>4. /\ d = [state |-> IF state = "jumping" /\ jumpAge > 0 THEN "air" ELSE state, falling |-> falling,
              force |-> jumpForce, posY |-> posY, age |-> jumpAge]
      /\ Good(d)
  <2>1. Good(d)
    BY TakeOffIsGood
  <2> QED BY <2>1 DEF TakeOff, Character
<1>5. Good(c) /\ c.posY = posY /\ c.falling = falling
      /\ c.state \in {"ground", "jumping", "air"}
  <2>1. Good(c)
    BY <1>4, JumpIsGood
  <2>2. c.posY = posY /\ c.falling = falling
    <3>1. jump(d, late).posY = d.posY /\ jump(d, late).falling = d.falling
      <4> HIDE DEF d
      <4> QED BY <1>4 DEF jump, MayJump, Good, Char
    <3> QED BY <1>4, <3>1
  <2> QED BY <2>1, <2>2 DEF Good, Char
<1>6. c.state = "ground" => posY = 1
  BY <1>5 DEF Good, InRange
<1>7. \/ c.state = d.state /\ c.age = d.age /\ c.force = d.force
      \/ state = "ground" /\ c.state = "jumping" /\ c.age <= 0
      \/ ~falling /\ c.state = d.state /\ c.age = d.age /\ c.force = d.force + 1
  <2> HIDE DEF d
  <2>1. CASE ~jumps \/ ~MayJump(d)
    BY <2>1 DEF jump
  <2>2. CASE jumps /\ MayJump(d) /\ d.state = "ground"
    <3>1. c = [d EXCEPT !.force = JUMP_MIN_FORCE, !.state = "jumping", !.age = -late]
      BY <2>2 DEF jump
    <3>2. c.state = "jumping" /\ c.age = -late /\ state = "ground"
      BY <1>4, <2>2, <3>1
    <3> QED BY <3>2
  <2>3. CASE jumps /\ MayJump(d) /\ d.state # "ground"
    <3>1. c = [d EXCEPT !.force = d.force + 1] /\ ~d.falling
      BY <2>3 DEF jump, MayJump
    <3> QED BY <1>4, <3>1
  <2> QED BY <2>1, <2>2, <2>3
<1>8. /\ d.state = IF state = "jumping" /\ jumpAge > 0 THEN "air" ELSE state
      /\ d.age = jumpAge /\ d.force = jumpForce
  BY <1>4
<1> HIDE DEF c, d
<1>9. CASE c.state # "air"
  <2>1. Fly(c) = c
    BY <1>9 DEF Fly
  <2>2. c.state = "jumping" => posY = 1 /\ c.age <= 0
    BY <1>1, <1>3, <1>7, <1>8
  <2>3. OnCourse(c)
    BY <1>5, <1>9, <2>2 DEF OnCourse
  <2>4. Distance(posY, c.posY) <= n
    BY <1>1, <1>2, <1>5 DEF Distance
  <2> QED BY <1>1, <1>5, <2>1, <2>3, <2>4 DEF Moved, c, d
<1>10. CASE c.state = "air"
  <2>1. /\ c.age = jumpAge /\ c.force \in {jumpForce, jumpForce + 1}
        /\ c.force = jumpForce + 1 => ~falling
        /\ state = "air" \/ (state = "jumping" /\ jumpAge > 0)
    BY <1>1, <1>7, <1>8, <1>10
  <2>2. PICK s \in Nat : /\ s <= Ticks(c) /\ Ticks(c) <= s + n
                         /\ c.posY = Clamp(HeightOf(s, c.force)) /\ (c.falling <=> s > c.force)
    <3>1. CASE state = "air"
      <4> DEFINE a == jumpAge - lag
                 t == a \div GAME_TICK
      <4>1. /\ t \in Int /\ t <= (a + lag) \div GAME_TICK
            /\ (a + lag) \div GAME_TICK <= t + n
        <5>1. lag \in Nat /\ a \in Int
          BY <1>1
        <5> HIDE DEF a
        <5>2. /\ t \in Int /\ lag \div GAME_TICK \in Nat /\ (a + lag) \div GAME_TICK \in Int
              /\ t <= (a + lag) \div GAME_TICK
              /\ (a + lag) \div GAME_TICK <= t + lag \div GAME_TICK + 1
          BY <5>1, TicksAdd
        <5> HIDE DEF t
        <5> QED BY <5>2
      <4>2. t >= 0 /\ posY = Clamp(HeightOf(t, jumpForce)) /\ (falling <=> t > jumpForce)
        BY <1>3, <3>1
      <4>3. Ticks(c) = (a + lag) \div GAME_TICK
        <5>1. a + lag = jumpAge
          BY <1>1
        <5> QED BY <2>1, <5>1 DEF Ticks
      <4> HIDE DEF a, t
      <4>4. HeightOf(t, c.force) = HeightOf(t, jumpForce) /\ (falling <=> t > c.force)
        <5>1. CASE c.force = jumpForce
          BY <4>2, <5>1
        <5>2. CASE c.force = jumpForce + 1
          BY <1>1, <2>1, <4>1, <4>2, <5>2 DEF HeightOf
        <5> QED BY <2>1, <5>1, <5>2
      <4> QED BY <1>5, <4>1, <4>2, <4>3, <4>4
    <3>2. CASE state = "jumping" /\ jumpAge > 0
      <4>1. posY = 1 /\ jumpAge - lag <= 0 /\ ~falling
        BY <1>1, <1>3, <3>2
      <4>2. Ticks(c) = jumpAge \div GAME_TICK
        BY <2>1 DEF Ticks
      <4>3. Ticks(c) \in Int /\ Ticks(c) >= 0
        BY <1>1, <3>2, <4>2, TicksAdd
      <4>4. Ticks(c) <= n
        <5> DEFINE a == jumpAge - lag
        <5>1. a \in Int /\ a <= 0 /\ a + lag = jumpAge
          BY <1>1, <4>1
        <5> HIDE DEF a
        <5>2. lag \in Nat /\ a \in Int /\ a <= 0
          BY <1>1, <5>1
        <5>3. (a + lag) \div GAME_TICK <= lag \div GAME_TICK
          BY <5>2, TicksAdd
        <5>4. lag \div GAME_TICK \in Int
          BY <5>2, TicksAdd
        <5> QED BY <4>2, <4>3, <5>1, <5>3, <5>4
      <4>5. c.force \in Int /\ c.force >= 0
        BY <1>1, <2>1
      <4>6. Clamp(HeightOf(0, c.force)) = 1
        BY <4>5, Sizes DEF HeightOf, Clamp
      <4> HIDE DEF n
      <4> QED BY <1>2, <1>5, <4>1, <4>3, <4>4, <4>5, <4>6
    <3> QED BY <2>1, <3>1, <3>2
  <2> HIDE DEF n
  <2>3. /\ OnCourse(Fly(c)) /\ Distance(c.posY, Fly(c).posY) <= n
        /\ c.falling /\ Fly(c).falling => Fly(c).posY <= c.posY
    BY <1>2, <1>5, <1>10, <2>2, FlyStaysOnCourse
  <2> QED BY <1>5, <2>3 DEF Moved, c, d, n
<1> QED BY <1>9, <1>10

(* The flight starts on the ground, and so does the clock.                 *)
LEMMA InitFlight == GameInit => Flight
BY DEF GameInit, Flight, OnCourse, Begun, Character

(* What an update does to the character, and no other step: time passes,   *)
(* which leaves Begun as it was.                                           *)
LEMMA StepFlight ==
    ASSUME GameInv, Flight, [GameNext]_ruleVars
    PROVE  /\ Flight'
           /\ Distance(posY, posY') <= lag \div GAME_TICK + 1
           /\ falling /\ falling' => posY' <= posY
<1>1. posY \in Int /\ lag \in Nat /\ lag \div GAME_TICK \in Nat
  BY TicksAdd DEF GameInv, Good, Char, Character, Flight
<1>2. UNCHANGED posY => /\ Distance(posY, posY') <= lag \div GAME_TICK + 1
                        /\ falling /\ falling' => posY' <= posY
  BY <1>1 DEF Distance
<1>3. CASE Tick
  <2>1. /\ lag' = lag + 1 /\ jumpAge' = IF state = "ground" THEN jumpAge ELSE jumpAge + 1
        /\ UNCHANGED <<state, falling, jumpForce, posY>>
    BY <1>3 DEF Tick
  <2>2. CASE state = "ground"
    BY <1>1, <1>2, <2>1, <2>2 DEF Flight, OnCourse, Begun, Character
  <2>3. CASE state # "ground"
    <3>1. jumpAge \in Int
      BY DEF GameInv, Good, Char, Character
    <3>2. jumpAge' - lag' = jumpAge - lag
      BY <1>1, <2>1, <2>3, <3>1
    <3>3. Begun' = Begun
      BY <2>1, <3>2 DEF Begun, Character
    <3>4. OnCourse(Begun')
      BY <3>3 DEF Flight
    <3> QED BY <1>1, <1>2, <2>1, <3>4 DEF Flight
  <2> QED BY <2>2, <2>3
<1>4. ASSUME NEW messages \in SUBSET {"jump", "menu"}, NEW late \in 0 .. 1, Update(messages, late)
      PROVE  /\ Flight'
             /\ Distance(posY, posY') <= lag \div GAME_TICK + 1
             /\ falling /\ falling' => posY' <= posY
  <2> DEFINE c == Moved("jump" \in messages, late)
  <2>1. Good(Character) /\ ("jump" \in messages) \in BOOLEAN
    BY DEF GameInv
  <2>2. /\ OnCourse(c) /\ Distance(posY, c.posY) <= lag \div GAME_TICK + 1
        /\ falling /\ c.falling => c.posY <= posY
    BY <2>1, MovedStaysOnCourse, Zenon
  <2>3. c \in Char
    BY <2>1, MovedIsGood, Zenon DEF Good
  <2>4. Land(c) /\ lag' = 0
    BY <1>4 DEF Update
  <2> HIDE DEF c
  <2>5. c.age - 0 = c.age
    BY <2>3 DEF Char
  <2>6. Begun' = c
    BY <2>3, <2>4, <2>5 DEF Begun, Character, Land, Char
  <2>7. OnCourse(Begun')
    BY <2>2, <2>6
  <2> QED BY <2>2, <2>4, <2>7 DEF Flight, Land
<1>5. CASE MenuResume \/ MenuExit \/ Over \/ UNCHANGED ruleVars
  <2>1. UNCHANGED <<state, falling, jumpForce, posY, jumpAge, lag>>
    BY <1>5 DEF MenuResume, MenuExit, Over, ruleVars, character
  <2>2. OnCourse(Begun')
    BY <2>1 DEF Begun, Character, Flight
  <2> QED BY <1>2, <2>1, <2>2 DEF Flight
<1> QED BY <1>3, <1>4, <1>5 DEF GameNext, Updates

(* However late the updates come and whenever the player asks for more     *)
(* force, the character moves a row per game tick at most, and does not    *)
(* rise again before it has landed (game.c:154-213).                       *)
THEOREM CharacterMovesSmoothly == GameSpec => MovesSmoothly
<1>1. GameInit => GameInv /\ Flight
  BY InitGood, InitFlight
<1>2. (GameInv /\ Flight) /\ [GameNext]_ruleVars => (GameInv /\ Flight)'
  BY StepGood, StepFlight
<1>3. (GameInv /\ Flight) /\ [GameNext]_ruleVars =>
        [/\ Distance(posY, posY') <= lag \div GAME_TICK + 1
         /\ falling /\ falling' => posY' <= posY]_ruleVars
  BY StepFlight
<1> QED BY <1>1, <1>2, <1>3, PTL DEF GameSpec, MovesSmoothly

-----------------------------------------------------------------------------
(* The programs as processes.                                              *)
PlayerActive(h)   == player[h] \notin {"none", "done"}
ReceiverActive(h) == receiver[h] \notin {"none", "done"}

StackOK ==
    /\ player \in [Games -> {"none", "open", "receive", "play", "stop", "done"}]
    /\ receiver \in [Games -> {"none", "raw", "open", "check", "read", "close", "keys", "done"}]
    /\ song \in [Games -> Nat] /\ note \in [Games -> Nat]
    /\ games \in Nat

(* A helper of a game is there only after the game has started it.         *)
Fresh ==
    \A h \in Games :
       /\ h > games \/ (h = games /\ program = "game" /\ at = "music") => player[h] = "none"
       /\ h > games \/ (h = games /\ program = "game" /\ at \in {"music", "first", "input"})
             => receiver[h] = "none"

(* Who plays has a song, and has not played more notes than it has.        *)
PlayingHeld ==
    \A h \in Games : player[h] = "play" =>
       song[h] \in DOMAIN Songs /\ note[h] <= Songs[song[h]]

(* Nothing is in the foreground while the shell reads a line.              *)
ForegroundFree == shell # "waitpid" => at = "done"

(* If the speaker sounds, somebody is there who will silence it.           *)
SpeakerHeld == speaker # FALSE => at = "pause" \/ \E h \in Games : PlayerActive(h)

(* If the keyboard is in raw mode, somebody will put it back.              *)
ModeHeld ==
    mode # "TTY" =>
       \/ program = "piano" /\ at \in {"read", "note", "pause", "leave"}
       \/ \E h \in Games : receiver[h] \in {"open", "check", "read", "close", "keys"}

(* An end of a queue that is open belongs to a process that will close it, *)
(* or to mq, which does not.                                               *)
Held(e) ==
    \/ e[3] = "mq"
    \/ e[3] = "game" /\ e[2] = games /\ program = "game" /\ at # "done"
    \/ e[3] = "player" /\ e[2] \in Games /\ player[e[2]] \in {"receive", "play", "stop"}
    \/ e[3] = "receiver" /\ e[2] \in Games /\ receiver[e[2]] \in {"check", "read", "close"}
EndsHeld == \A e \in ends : Held(e)

(* As long as no program was started beside a receiver, there is only the  *)
(* one of the last game, no other program, and who reads raw keys has put  *)
(* the keyboard in raw mode.                                               *)
RawHeld ==
    ~overlap =>
       /\ program = "piano" /\ at \in {"read", "note", "pause", "leave"} => mode = "RAW"
       /\ \A h \in Games : ReceiverActive(h) =>
             /\ h = games /\ program \in {"game", "none"}
             /\ receiver[h] # "raw" => mode = "RAW"

IInv == StackOK /\ Fresh /\ PlayingHeld /\ ForegroundFree /\ SpeakerHeld /\ ModeHeld /\ EndsHeld /\ RawHeld

(* A song has a length.                                                    *)
LEMMA SongLengths == \A n \in DOMAIN Songs : n \in Nat /\ Songs[n] \in 1 .. 127
BY ProgramsAssumption

(* At the start there is only the shell.                                   *)
LEMMA InitEstablishes == Init => IInv
<1> SUFFICES ASSUME Init PROVE IInv
  OBVIOUS
<1>1. StackOK /\ Fresh /\ PlayingHeld
  BY DEF Init, StackOK, Fresh, PlayingHeld, Games
<1>2. ForegroundFree /\ SpeakerHeld /\ ModeHeld /\ EndsHeld /\ RawHeld
  BY DEF Init, ForegroundFree, SpeakerHeld, ModeHeld, EndsHeld, RawHeld, ReceiverActive
<1> QED BY <1>1, <1>2 DEF IInv

(* Steps that touch nothing of it: those of the user, and of the end.      *)
LEMMA UserKeeps == ASSUME IInv, User \/ InitEnds \/ finishKernel PROVE IInv'
<1> USE DEF IInv, StackOK, Fresh, PlayingHeld, ForegroundFree, SpeakerHeld, ModeHeld, EndsHeld, Held, RawHeld,
            PlayerActive, ReceiverActive, shellVars, gameVars, songVars, queueVars, history
<1>1. ASSUME NEW line \in Lines, Type(line) PROVE IInv'
  BY <1>1 DEF Type
<1>2. ASSUME NEW key \in Keys, Press(key) PROVE IInv'
  BY <1>2 DEF Press
<1>3. CASE InitEnds
  BY <1>3 DEF InitEnds
<1>4. CASE finishKernel
  BY <1>4 DEF finishKernel
<1> QED BY <1>1, <1>2, <1>3, <1>4 DEF User

(* The shell starts a program only when none is in the foreground.         *)
LEMMA ShellKeeps == ASSUME IInv, Shell PROVE IInv'
<1> USE DEF IInv, StackOK, Fresh, PlayingHeld, ForegroundFree, SpeakerHeld, ModeHeld, EndsHeld, Held, RawHeld,
            PlayerActive, ReceiverActive, shellVars, gameVars, songVars, queueVars, userVars, history
<1>1. CASE ReadCommand
  <2>1. EndsHeld'
    BY <1>1 DEF ReadCommand, FirstStep
  <2>2. StackOK' /\ Fresh' /\ ForegroundFree'
    BY <1>1 DEF ReadCommand, FirstStep, Games
  <2>3. PlayingHeld' /\ SpeakerHeld'
    BY <1>1 DEF ReadCommand, FirstStep
  <2>4. ModeHeld' /\ RawHeld'
    BY <1>1 DEF ReadCommand, FirstStep
  <2> QED BY <2>1, <2>2, <2>3, <2>4 DEF IInv
<1>2. CASE Waited
  BY <1>2 DEF Waited
<1>3. CASE ShellEnds
  BY <1>3 DEF ShellEnds
<1> QED BY <1>1, <1>2, <1>3 DEF Shell

(* The commands put back what they take, mq excepted.                      *)
LEMMA CommandKeeps == ASSUME IInv, Quiet \/ Poweroff \/ Reboot \/ TestMQ \/ Beep \/ Piano PROVE IInv'
<1> USE DEF IInv, StackOK, Fresh, PlayingHeld, ForegroundFree, SpeakerHeld, ModeHeld, EndsHeld, Held, RawHeld,
            PlayerActive, ReceiverActive, shellVars, gameVars, songVars, queueVars, userVars, history, Foreground
<1>1. CASE Quiet
  BY <1>1 DEF Quiet
<1>2. CASE Poweroff
  BY <1>2 DEF Poweroff
<1>3. CASE Reboot
  BY <1>3 DEF Reboot
<1>4. CASE TestMQ
  <2>1. EndsHeld'
    BY <1>4 DEF TestMQ, End
  <2>2. StackOK' /\ Fresh' /\ ForegroundFree'
    BY <1>4 DEF TestMQ, End
  <2>3. PlayingHeld' /\ SpeakerHeld'
    BY <1>4 DEF TestMQ, End
  <2>4. ModeHeld' /\ RawHeld'
    BY <1>4 DEF TestMQ, End
  <2> QED BY <2>1, <2>2, <2>3, <2>4 DEF IInv
<1>5. CASE Beep
  BY <1>5 DEF Beep
<1>6. CASE Piano
  BY <1>6 DEF Piano
<1> QED BY <1>1, <1>2, <1>3, <1>4, <1>5, <1>6

(* The game opens queues while it is in the foreground, and closes them as *)
(* it leaves.                                                              *)
LEMMA GameKeeps == ASSUME IInv, Game PROVE IInv'
<1> USE DEF IInv, StackOK, Fresh, PlayingHeld, ForegroundFree, SpeakerHeld, ModeHeld, EndsHeld, Held, RawHeld,
            PlayerActive, ReceiverActive, shellVars, gameVars, songVars, queueVars, userVars, history, Foreground, Playing, Goes, g
<1>1. CASE StartMusic
  <2>1. EndsHeld'
    <3>1. ends' = ends \cup {End("toSong", g, "game"), End("fromSong", g, "game")}
      BY <1>1 DEF StartMusic
    <3>2. ASSUME NEW e \in ends PROVE Held(e)'
      <4>1. Held(e)
        OBVIOUS
      <4> QED BY <1>1, <4>1 DEF StartMusic
    <3>3. ASSUME NEW e \in {End("toSong", g, "game"), End("fromSong", g, "game")} PROVE Held(e)'
      BY <1>1 DEF StartMusic, End
    <3>4. \A e \in ends' : Held(e)'
      <4> HIDE DEF Held
      <4> QED BY <3>1, <3>2, <3>3
    <3> QED BY <3>4 DEF EndsHeld
  <2>2. StackOK' /\ Fresh' /\ ForegroundFree'
    <3>1. /\ player' = [player EXCEPT ![games] = "open"]
          /\ UNCHANGED <<shell, program, games, receiver, song, note>>
          /\ program = "game" /\ at' \notin {"music"} /\ at # "done"
      BY <1>1 DEF StartMusic
    <3>2. StackOK' /\ ForegroundFree'
      BY <3>1
    <3>3. Fresh'
      <4> SUFFICES ASSUME NEW h \in Games
                   PROVE  /\ h > games \/ (h = games /\ at' = "music") => player'[h] = "none"
                          /\ h > games \/ (h = games /\ at' \in {"music", "first", "input"})
                                => receiver'[h] = "none"
        BY <3>1
      <4>1. h \in Nat /\ games \in Nat
        BY DEF Games
      <4> QED BY <3>1, <4>1, <1>1 DEF StartMusic
    <3> QED BY <3>2, <3>3
  <2>3. PlayingHeld' /\ SpeakerHeld'
    BY <1>1 DEF StartMusic
  <2>4. ModeHeld' /\ RawHeld'
    BY <1>1 DEF StartMusic
  <2> QED BY <2>1, <2>2, <2>3, <2>4 DEF IInv
<1>2. CASE FirstOrder
  BY <1>2 DEF FirstOrder, Order
<1>3. CASE StartInput
  <2>1. EndsHeld'
    <3>1. ends' = ends \cup {End("toGame", g, "game"), End("toReceiver", g, "game")}
      BY <1>3 DEF StartInput
    <3>2. ASSUME NEW e \in ends PROVE Held(e)'
      <4>1. Held(e)
        OBVIOUS
      <4> QED BY <1>3, <4>1 DEF StartInput
    <3>3. ASSUME NEW e \in {End("toGame", g, "game"), End("toReceiver", g, "game")} PROVE Held(e)'
      BY <1>3 DEF StartInput, End
    <3>4. \A e \in ends' : Held(e)'
      <4> HIDE DEF Held
      <4> QED BY <3>1, <3>2, <3>3
    <3> QED BY <3>4 DEF EndsHeld
  <2>2. StackOK' /\ Fresh' /\ ForegroundFree'
    <3>1. /\ receiver' = [receiver EXCEPT ![games] = "raw"]
          /\ UNCHANGED <<shell, program, games, player, song, note>>
          /\ program = "game" /\ at' \notin {"music", "first", "input"} /\ at # "done"
      BY <1>3 DEF StartInput
    <3>2. StackOK' /\ ForegroundFree'
      BY <3>1
    <3>3. Fresh'
      <4> SUFFICES ASSUME NEW h \in Games
                   PROVE  /\ h > games \/ (h = games /\ at' = "music") => player'[h] = "none"
                          /\ h > games \/ (h = games /\ at' \in {"music", "first", "input"})
                                => receiver'[h] = "none"
        BY <3>1
      <4>1. h \in Nat /\ games \in Nat
        BY DEF Games
      <4> QED BY <3>1, <4>1
    <3> QED BY <3>2, <3>3
  <2>3. PlayingHeld' /\ SpeakerHeld'
    BY <1>3 DEF StartInput
  <2>4. ModeHeld' /\ RawHeld'
    BY <1>3 DEF StartInput
  <2> QED BY <2>1, <2>2, <2>3, <2>4 DEF IInv
<1>4. CASE Drain
  BY <1>4 DEF Drain
<1>5. CASE Move
  BY <1>5 DEF Move
<1>6. CASE Menu
  BY <1>6 DEF Menu, Order
<1>7. CASE GameOverSong
  BY <1>7 DEF GameOverSong, Order
<1>8. CASE GameOverLag
  BY <1>8 DEF GameOverLag
<1>9. CASE EndMusic
  BY <1>9 DEF EndMusic, Order
<1>10. CASE EndInput
  BY <1>10 DEF EndInput
<1>11. CASE GameEnds
  BY <1>11 DEF GameEnds, Close
<1> QED BY <1>1, <1>2, <1>3, <1>4, <1>5, <1>6, <1>7, <1>8, <1>9, <1>10, <1>11 DEF Game

(* A step of PlayNote ends the song, plays the next note or sees an order. *)
LEMMA NoteSteps ==
    ASSUME NEW h \in Games, PlayNote(h), note[h] \in Nat, Songs[song[h]] \in 1 .. 127,
           note[h] <= Songs[song[h]]
    PROVE  \/ /\ note' = [note EXCEPT ![h] = 0] /\ speaker' = FALSE
              /\ player' = player /\ song' = song
           \/ /\ note[h] < Songs[song[h]]
              /\ note' = [note EXCEPT ![h] = note[h] + 1] /\ speaker' = TRUE
              /\ player' = player /\ song' = song
           \/ /\ player' = [player EXCEPT ![h] = "receive"] /\ speaker' = speaker
              /\ song' = [song EXCEPT ![h] = 0] /\ note' = [note EXCEPT ![h] = 0]
<1> DEFINE n == note[h]
           max == Songs[song[h]]
           A1 == note' = [note EXCEPT ![h] = 0] /\ speaker' = FALSE /\ UNCHANGED <<player, song>>
           A2 == note' = [note EXCEPT ![h] = @ + 1] /\ speaker' = TRUE /\ UNCHANGED <<player, song>>
           A3 == /\ player' = [player EXCEPT ![h] = "receive"] /\ UNCHANGED speaker
                 /\ song' = [song EXCEPT ![h] = 0] /\ note' = [note EXCEPT ![h] = 0]
<1>1. CASE n = max
  <2>1. ~ (n < max)
    BY <1>1
  <2>2. A1
    BY <1>1, <2>1 DEF PlayNote
  <2> QED BY <2>2
<1>2. CASE n < max /\ toSong[h] = <<>>
  <2>1. n # max
    BY <1>2
  <2>2. A2
    BY <1>2, <2>1 DEF PlayNote
  <2> QED BY <1>2, <2>2
<1>3. CASE n < max /\ toSong[h] # <<>>
  <2>1. n # max
    BY <1>3
  <2>2. A3
    BY <1>3, <2>1 DEF PlayNote
  <2> QED BY <2>2
<1>4. n = max \/ n < max
  OBVIOUS
<1> QED BY <1>1, <1>2, <1>3, <1>4

(* SongPlayer has its queues open from its first message to its end, and   *)
(* the speaker is off when it has gone.                                    *)
LEMMA PlayerKeeps == ASSUME IInv, NEW h \in Games, SongPlayer(h) PROVE IInv'
<1> USE DEF IInv, StackOK, Fresh, PlayingHeld, ForegroundFree, SpeakerHeld, ModeHeld, EndsHeld, Held, RawHeld,
            PlayerActive, ReceiverActive, shellVars, gameVars, songVars, queueVars, userVars, history
<1>1. CASE PlayerOpens(h)
  <2>1. EndsHeld'
    <3>1. ends' = ends \cup {End("toSong", h, "player"), End("fromSong", h, "player")}
      BY <1>1 DEF PlayerOpens
    <3>2. ASSUME NEW e \in ends PROVE Held(e)'
      <4>1. Held(e)
        OBVIOUS
      <4> QED BY <1>1, <4>1 DEF PlayerOpens
    <3>3. ASSUME NEW e \in {End("toSong", h, "player"), End("fromSong", h, "player")} PROVE Held(e)'
      BY <1>1 DEF PlayerOpens, End
    <3>4. \A e \in ends' : Held(e)'
      <4> HIDE DEF Held
      <4> QED BY <3>1, <3>2, <3>3
    <3> QED BY <3>4 DEF EndsHeld
  <2>2. StackOK' /\ Fresh' /\ ForegroundFree'
    BY <1>1 DEF PlayerOpens
  <2>3. PlayingHeld' /\ SpeakerHeld'
    BY <1>1 DEF PlayerOpens
  <2>4. ModeHeld' /\ RawHeld'
    BY <1>1 DEF PlayerOpens
  <2> QED BY <2>1, <2>2, <2>3, <2>4 DEF IInv
<1>2. CASE PlayerReceives(h)
  <2>1. EndsHeld'
    BY <1>2, SongLengths DEF PlayerReceives, After, IsSong
  <2>2. StackOK' /\ Fresh' /\ ForegroundFree'
    BY <1>2, SongLengths DEF PlayerReceives, After, IsSong
  <2>3. PlayingHeld' /\ SpeakerHeld'
    <3> DEFINE n == Head(toSong[h])
    <3>1. /\ player[h] = "receive"
          /\ player' = [player EXCEPT ![h] = After(n)]
          /\ song' = [song EXCEPT ![h] = IF IsSong(n) THEN n ELSE 0]
          /\ note' = [note EXCEPT ![h] = 0]
          /\ UNCHANGED at
      BY <1>2 DEF PlayerReceives
    <3>2. After(n) \notin {"none", "done"} /\ (After(n) = "play" => IsSong(n))
      BY DEF After
    <3>3. IsSong(n) => n \in DOMAIN Songs /\ 0 <= Songs[n]
      BY SongLengths DEF IsSong
    <3>4. SpeakerHeld'
      BY <3>1, <3>2
    <3>5. PlayingHeld'
      BY <3>1, <3>2, <3>3
    <3> QED BY <3>4, <3>5
  <2>4. ModeHeld' /\ RawHeld'
    BY <1>2, SongLengths DEF PlayerReceives, After, IsSong
  <2> QED BY <2>1, <2>2, <2>3, <2>4 DEF IInv
<1>3. CASE PlayNote(h)
  <2>1. /\ player[h] = "play" /\ note[h] \in Nat
        /\ UNCHANGED <<shellVars, gameVars, receiver, queueVars, userVars, mode, history, machine>>
    BY <1>3 DEF PlayNote
  <2>2. song[h] \in DOMAIN Songs /\ Songs[song[h]] \in 1 .. 127 /\ note[h] <= Songs[song[h]]
    BY <2>1, SongLengths
  <2>3. CASE note' = [note EXCEPT ![h] = 0] /\ speaker' = FALSE /\ player' = player /\ song' = song
    <3>1. StackOK' /\ Fresh' /\ ForegroundFree' /\ SpeakerHeld'
      BY <2>1, <2>3
    <3>2. PlayingHeld'
      <4> SUFFICES ASSUME NEW k \in Games, player[k] = "play"
                   PROVE  song[k] \in DOMAIN Songs /\ note'[k] <= Songs[song[k]]
        BY <2>3
      <4>1. CASE k = h
        BY <2>1, <2>2, <2>3, <4>1
      <4>2. CASE k # h
        BY <2>3, <4>2
      <4> QED BY <4>1, <4>2
    <3>3. ModeHeld' /\ EndsHeld' /\ RawHeld'
      BY <2>1, <2>3
    <3> QED BY <3>1, <3>2, <3>3
  <2>4. CASE /\ note[h] < Songs[song[h]] /\ note' = [note EXCEPT ![h] = note[h] + 1] /\ speaker' = TRUE
             /\ player' = player /\ song' = song
    <3>1. PlayingHeld'
      <4> SUFFICES ASSUME NEW k \in Games, player[k] = "play"
                   PROVE  song[k] \in DOMAIN Songs /\ note'[k] <= Songs[song[k]]
        BY <2>4
      <4>1. CASE k = h
        BY <2>1, <2>2, <2>4, <4>1
      <4>2. CASE k # h
        BY <2>4, <4>2
      <4> QED BY <4>1, <4>2
    <3>2. StackOK' /\ Fresh' /\ ForegroundFree' /\ SpeakerHeld'
      BY <2>1, <2>4
    <3>3. ModeHeld' /\ EndsHeld' /\ RawHeld'
      BY <2>1, <2>4
    <3> QED BY <3>1, <3>2, <3>3
  <2>5. CASE /\ player' = [player EXCEPT ![h] = "receive"] /\ speaker' = speaker
             /\ song' = [song EXCEPT ![h] = 0] /\ note' = [note EXCEPT ![h] = 0]
    <3>1. StackOK' /\ Fresh' /\ ForegroundFree'
      BY <2>1, <2>5
    <3>2. PlayingHeld' /\ SpeakerHeld'
      BY <2>1, <2>5
    <3>3. EndsHeld'
      BY <2>1, <2>5
    <3>4. ModeHeld' /\ RawHeld'
      BY <2>1, <2>5
    <3> QED BY <3>1, <3>2, <3>3, <3>4
  <2>6. \/ /\ note' = [note EXCEPT ![h] = 0] /\ speaker' = FALSE
           /\ player' = player /\ song' = song
        \/ /\ note[h] < Songs[song[h]]
           /\ note' = [note EXCEPT ![h] = note[h] + 1] /\ speaker' = TRUE
           /\ player' = player /\ song' = song
        \/ /\ player' = [player EXCEPT ![h] = "receive"] /\ speaker' = speaker
           /\ song' = [song EXCEPT ![h] = 0] /\ note' = [note EXCEPT ![h] = 0]
    BY <1>3, <2>1, <2>2, NoteSteps
  <2> HIDE DEF IInv
  <2> QED BY <2>3, <2>4, <2>5, <2>6
<1>4. CASE PlayerEnds(h)
  <2>1. EndsHeld'
    BY <1>4 DEF PlayerEnds, Close
  <2>2. StackOK' /\ Fresh' /\ ForegroundFree'
    BY <1>4 DEF PlayerEnds, Close
  <2>3. PlayingHeld' /\ SpeakerHeld'
    BY <1>4 DEF PlayerEnds, Close
  <2>4. ModeHeld' /\ RawHeld'
    BY <1>4 DEF PlayerEnds, Close
  <2> QED BY <2>1, <2>2, <2>3, <2>4 DEF IInv
<1> HIDE DEF IInv
<1> QED BY <1>1, <1>2, <1>3, <1>4 DEF SongPlayer

(* InputReceiver has the keyboard in raw mode from before it opens its     *)
(* queues to after it has closed them.                                     *)
LEMMA ReceiverKeeps == ASSUME IInv, NEW h \in Games, InputReceiver(h) PROVE IInv'
<1> USE DEF IInv, StackOK, Fresh, PlayingHeld, ForegroundFree, SpeakerHeld, ModeHeld, EndsHeld, Held, RawHeld,
            PlayerActive, ReceiverActive, shellVars, gameVars, songVars, queueVars, userVars, history
<1>1. CASE ReceiverStarts(h)
  <2>1. EndsHeld'
    BY <1>1 DEF ReceiverStarts, ReceiverGoes, End
  <2>2. StackOK' /\ Fresh' /\ ForegroundFree'
    BY <1>1 DEF ReceiverStarts, ReceiverGoes, End
  <2>3. PlayingHeld' /\ SpeakerHeld'
    BY <1>1 DEF ReceiverStarts, ReceiverGoes, End
  <2>4. ModeHeld' /\ RawHeld'
    BY <1>1 DEF ReceiverStarts, ReceiverGoes, End
  <2> QED BY <2>1, <2>2, <2>3, <2>4 DEF IInv
<1>2. CASE checkEnd(h)
  <2>1. /\ receiver[h] \in {"check", "read"}
        /\ \E where \in {"check", "read", "close"} : receiver' = [receiver EXCEPT ![h] = where]
        /\ UNCHANGED <<shellVars, gameVars, songVars, ends, mode, speaker, overlap>>
    BY <1>2 DEF checkEnd, ReceiverGoes
  <2>2. EndsHeld'
    BY <2>1
  <2>3. StackOK' /\ Fresh' /\ ForegroundFree'
    BY <2>1
  <2>4. PlayingHeld' /\ SpeakerHeld'
    BY <2>1
  <2>5. ModeHeld' /\ RawHeld'
    BY <2>1
  <2> QED BY <2>2, <2>3, <2>4, <2>5 DEF IInv
<1>3. CASE getScanCode(h)
  <2>1. /\ receiver[h] \in {"check", "read"}
        /\ \E where \in {"check", "read", "close"} : receiver' = [receiver EXCEPT ![h] = where]
        /\ UNCHANGED <<shellVars, gameVars, songVars, ends, mode, speaker, overlap>>
    BY <1>3 DEF getScanCode, ReceiverGoes
  <2>2. EndsHeld'
    BY <2>1
  <2>3. StackOK' /\ Fresh' /\ ForegroundFree'
    BY <2>1
  <2>4. PlayingHeld' /\ SpeakerHeld'
    BY <2>1
  <2>5. ModeHeld' /\ RawHeld'
    BY <2>1
  <2> QED BY <2>2, <2>3, <2>4, <2>5 DEF IInv
<1>4. CASE ReceiverEnds(h)
  <2>1. EndsHeld'
    BY <1>4 DEF ReceiverEnds, ReceiverGoes, Close
  <2>2. StackOK' /\ Fresh' /\ ForegroundFree'
    BY <1>4 DEF ReceiverEnds, ReceiverGoes, Close
  <2>3. PlayingHeld' /\ SpeakerHeld'
    BY <1>4 DEF ReceiverEnds, ReceiverGoes, Close
  <2>4. ModeHeld' /\ RawHeld'
    BY <1>4 DEF ReceiverEnds, ReceiverGoes, Close
  <2> QED BY <2>1, <2>2, <2>3, <2>4 DEF IInv
<1> QED BY <1>1, <1>2, <1>3, <1>4 DEF InputReceiver

(* So does every step.                                                     *)
LEMMA NextKeeps == IInv /\ [Next]_vars => IInv'
<1> SUFFICES ASSUME IInv, [Next]_vars PROVE IInv'
  OBVIOUS
<1>1. CASE UNCHANGED vars
  <2> USE <1>1 DEF vars, shellVars, gameVars, songVars, queueVars, userVars, history
  <2>1. StackOK' /\ Fresh' /\ ForegroundFree'
    BY DEF IInv, StackOK, Fresh, ForegroundFree
  <2>2. PlayingHeld' /\ SpeakerHeld'
    BY DEF IInv, PlayingHeld, SpeakerHeld, PlayerActive
  <2>3. EndsHeld'
    BY DEF IInv, EndsHeld, Held
  <2>4. ModeHeld' /\ RawHeld'
    BY DEF IInv, ModeHeld, RawHeld, ReceiverActive
  <2> QED BY <2>1, <2>2, <2>3, <2>4 DEF IInv
<1>2. CASE Next
  <2>1. CASE User \/ InitEnds \/ finishKernel
    BY <2>1, UserKeeps
  <2>2. CASE Shell
    BY <2>2, ShellKeeps
  <2>3. CASE Program
    BY <2>3, CommandKeeps, GameKeeps DEF Program
  <2>4. CASE \E h \in Games : SongPlayer(h) \/ InputReceiver(h)
    BY <2>4, PlayerKeeps, ReceiverKeeps
  <2> QED BY <1>2, <2>1, <2>2, <2>3, <2>4 DEF Next
<1> QED BY <1>1, <1>2

LEMMA Invariance == Spec => []IInv
BY InitEstablishes, NextKeeps, PTL DEF Spec

-----------------------------------------------------------------------------
(* When the shell alone is left, the speaker is silent, the keyboard types *)
(* into the terminal and all queues but those of mq are closed, whatever   *)
(* was run, however often, and in whatever order the processes ended       *)
(* (game.c:147-150, 334-346, songplayer.c:59-66, inputReceiver.c:47-50).   *)
THEOREM NothingIsLeftBehind == Spec => []LeavesNothingBehind
<1>1. IInv => LeavesNothingBehind
  <2> SUFFICES ASSUME IInv, at = "done", \A h \in Games : Gone(h)
               PROVE  speaker = FALSE /\ mode = "TTY" /\ \A e \in ends : e[3] = "mq"
    BY DEF LeavesNothingBehind
  <2>1. speaker = FALSE
    BY DEF IInv, SpeakerHeld, PlayerActive, Gone
  <2>2. mode = "TTY"
    BY DEF IInv, ModeHeld, Gone
  <2>3. \A e \in ends : e[3] = "mq"
    BY DEF IInv, EndsHeld, Held, Gone
  <2> QED BY <2>1, <2>2, <2>3
<1> QED BY <1>1, Invariance, PTL

(* Who waits for a key in raw mode gets it, as long as no program was      *)
(* started while a receiver of an earlier game was there (inputReceiver.c: *)
(* 36-50, piano.c).                                                        *)
THEOREM RawReadersAreHeard == Spec => []RawReaderIsHeard
<1>1. IInv => RawReaderIsHeard
  BY DEF IInv, RawHeld, RawReaderIsHeard, ReceiverActive
<1> QED BY <1>1, Invariance, PTL
===============================================================================
