----------------------------- MODULE Programs -----------------------------
(***************************************************************************)
(* The processes of the Userland and what they do to each other: init.d,   *)
(* the shell of terminal.c, the program in the foreground, and the two     *)
(* helpers of the game: SongPlayer, which takes orders from a queue and    *)
(* drives the speaker, and InputReceiver, which puts the keyboard in raw   *)
(* mode and turns scan codes into messages.  The user types lines and      *)
(* presses keys; the kernel stops when no process is left.                 *)
(*                                                                         *)
(* Every step is one or a few system calls, and any process may run next.  *)
(* The queues are those of module MessageQueues, seen through what they    *)
(* promise: bytes in order, closed when both ends are.  A message is eight *)
(* bytes sent one by one; a receiver that blocks waits for all of them, so *)
(* it matters only to InputReceiver, whose end does not block.             *)
(* The rules of the game are in module Game.                               *)
(***************************************************************************)
EXTENDS Integers, Sequences, FiniteSets

CONSTANTS
    Lines,      \* what the user types at the shell: names of commands, or "unknown"
    Keys,       \* the keys pressed in raw mode, a subset of DOMAIN Decoded
    Songs,      \* the length of each song of the data module
    MaxLines, MaxKeys,   \* bounds on what the user types and presses
    MaxGames,   \* bound on how often the user starts the game
    StdinRoom, RawRoom,  \* bounds on what waits to be read
    SongRoom    \* messages a queue to SongPlayer holds; MQsend waits for room

ASSUME ProgramsAssumption ==
    /\ Songs \in Seq(1 .. 127) /\ MaxLines \in Nat /\ MaxGames \in Nat /\ MaxKeys \in Nat

Games == 1 .. MaxGames      \* the runs of the game, and the processes of each

VARIABLES
    init,               \* init.d: "waiting" for the shell, or "done"
    shell,              \* "prompt", "waitpid" or "done"
    terminalRunning,
    program, at,        \* the program in the foreground, and where it is
    games,              \* how many times the game was run; the last is in the foreground
    menu,               \* gameState is GAME_STATE_MENU
    player, song, note, \* each SongPlayer: where it is, what it plays
    receiver,           \* each InputReceiver: where it is
    toSong, toGame,     \* the messages in the queues of each game
    toReceiver,         \* and those to its InputReceiver, in two pieces each
    ends,               \* the <<queue, process>> ends that are open
    mode,               \* keyboardMode: "TTY" or "RAW"
    stdin, raw,         \* lines and keys not yet read
    speaker,            \* whether it sounds
    lines, keys,        \* how much the user has typed
    torn,               \* receivers that read a message before it was all there (history)
    overlap,            \* a program was started while a receiver was there (history)
    machine             \* "on", "off" (finishKernel) or "rebooted"

shellVars == <<init, shell, terminalRunning>>
gameVars  == <<program, at, games, menu>>
songVars  == <<player, song, note>>
queueVars == <<toSong, toGame, toReceiver, ends>>
userVars  == <<lines, keys, stdin, raw>>
history   == <<torn, overlap>>
vars == <<shellVars, gameVars, songVars, receiver, queueVars, userVars, mode, speaker, history, machine>>

Init ==
    /\ init = "waiting" /\ shell = "prompt" /\ terminalRunning = TRUE
    /\ program = "none" /\ at = "done" /\ games = 0 /\ menu = FALSE
    /\ player = [h \in Games |-> "none"] /\ song = [h \in Games |-> 0] /\ note = [h \in Games |-> 0]
    /\ receiver = [h \in Games |-> "none"]
    /\ toSong = [h \in Games |-> <<>>] /\ toGame = toSong /\ toReceiver = toSong
    /\ ends = {} /\ mode = "TTY" /\ stdin = <<>> /\ raw = <<>> /\ speaker = FALSE
    /\ lines = 0 /\ keys = 0 /\ machine = "on"
    /\ torn = {} /\ overlap = FALSE

-----------------------------------------------------------------------------
(* The user.  A line is typed in one mode; a key goes where the mode says. *)
Type(line) ==
    /\ mode = "TTY" /\ lines < MaxLines /\ Len(stdin) < StdinRoom
    /\ line = "game" => games + Cardinality({i \in DOMAIN stdin : stdin[i] = "game"}) < MaxGames
    /\ stdin' = Append(stdin, line) /\ lines' = lines + 1
    /\ UNCHANGED <<shellVars, gameVars, songVars, receiver, queueVars, keys, raw, mode, speaker, history, machine>>

Press(key) ==
    /\ mode = "RAW" /\ keys < MaxKeys /\ Len(raw) < RawRoom
    /\ raw' = Append(raw, key) /\ keys' = keys + 1
    /\ UNCHANGED <<shellVars, gameVars, songVars, receiver, queueVars, lines, stdin, mode, speaker, history, machine>>

(* terminalMain: a prompt, readLine, matchCommand, runCommand.             *)
matchCommand(line) == line # "unknown"
FirstStep(command) == IF command = "game" THEN "music" ELSE "start"

ReadCommand ==
    /\ shell = "prompt" /\ terminalRunning /\ stdin # <<>>
    /\ stdin' = Tail(stdin)
    /\ LET command == Head(stdin) IN
         IF matchCommand(command)
         THEN /\ program' = command /\ at' = FirstStep(command) /\ shell' = "waitpid"
              /\ games' = IF command = "game" THEN games + 1 ELSE games
         ELSE UNCHANGED <<program, at, games, shell>>
    /\ overlap' = (overlap \/ \E h \in Games : receiver[h] \notin {"none", "done"})
    /\ UNCHANGED <<init, terminalRunning, menu, songVars, receiver, queueVars, lines, keys, raw, mode, speaker, torn, machine>>

Waited ==
    /\ shell = "waitpid" /\ at = "done" /\ shell' = "prompt" /\ program' = "none"
    /\ UNCHANGED <<init, terminalRunning, at, games, menu, songVars, receiver, queueVars, userVars, mode, speaker, history, machine>>

ShellEnds ==
    /\ shell = "prompt" /\ ~terminalRunning /\ shell' = "done"
    /\ UNCHANGED <<init, terminalRunning, gameVars, songVars, receiver, queueVars, userVars, mode, speaker, history, machine>>

InitEnds ==
    /\ init = "waiting" /\ shell = "done" /\ init' = "done"
    /\ UNCHANGED <<shell, terminalRunning, gameVars, songVars, receiver, queueVars, userVars, mode, speaker, history, machine>>

(* kernel_main goes on after the last process has ended.                   *)
finishKernel ==
    /\ init = "done" /\ at = "done"
    /\ \A h \in Games : player[h] \in {"none", "done"} /\ receiver[h] \in {"none", "done"}
    /\ machine' = "off"
    /\ UNCHANGED <<shellVars, gameVars, songVars, receiver, queueVars, userVars, mode, speaker, history>>

-----------------------------------------------------------------------------
(* The simple programs.  FirstEnd and SecondEnd are where they exit.       *)
Foreground(command, step) == program = command /\ at = step

Quiet ==            \* help, hello, clear, scroll, time, sleep, ps, ipcs
    /\ Foreground("quiet", "start") /\ at' = "done"
    /\ UNCHANGED <<shellVars, program, games, menu, songVars, receiver, queueVars, userVars, mode, speaker, history, machine>>

Poweroff ==
    /\ Foreground("poweroff", "start") /\ at' = "done" /\ terminalRunning' = FALSE
    /\ UNCHANGED <<init, shell, program, games, menu, songVars, receiver, queueVars, userVars, mode, speaker, history, machine>>

Reboot ==
    /\ Foreground("reboot", "start") /\ machine' = "rebooted"
    /\ UNCHANGED <<shellVars, gameVars, songVars, receiver, queueVars, userVars, mode, speaker, history>>

End(queue, h, process) == <<queue, h, process>>
(* testMQ leaves the queue it opened as it is.                             *)
TestMQ ==
    /\ Foreground("mq", "start") /\ at' = "done" /\ ends' = ends \cup {End("unique", lines, "mq")}
    /\ UNCHANGED <<shellVars, program, games, menu, songVars, receiver, toSong, toGame, toReceiver, userVars, mode, speaker, history, machine>>

(* soundFX: the speaker on, a pause, the speaker off.                      *)
Beep ==
    /\ \/ Foreground("beep", "start") /\ at' = "pause" /\ speaker' = TRUE
       \/ Foreground("beep", "pause") /\ at' = "done" /\ speaker' = FALSE
    /\ UNCHANGED <<shellVars, program, games, menu, songVars, receiver, queueVars, userVars, mode, history, machine>>

(* The piano reads scan codes until ESC; a key of its rows is a note.      *)
Piano ==
    /\ \/ Foreground("piano", "start") /\ at' = "read" /\ mode' = "RAW" /\ UNCHANGED <<raw, speaker>>
       \/ /\ Foreground("piano", "read") /\ raw # <<>> /\ raw' = Tail(raw)
          /\ at' = IF Head(raw) = "esc" THEN "leave" ELSE IF Head(raw) \in {"w", "e"} THEN "note" ELSE "read"
          /\ UNCHANGED <<mode, speaker>>
       \/ Foreground("piano", "note")  /\ at' = "pause" /\ speaker' = TRUE /\ UNCHANGED <<raw, mode>>
       \/ Foreground("piano", "pause") /\ at' = "read" /\ speaker' = FALSE /\ UNCHANGED <<raw, mode>>
       \/ Foreground("piano", "leave") /\ at' = "done" /\ mode' = "TTY" /\ UNCHANGED <<raw, speaker>>
    /\ UNCHANGED <<shellVars, program, games, menu, songVars, receiver, queueVars, lines, keys, stdin, history, machine>>

-----------------------------------------------------------------------------
(* The game.  g is the game in the foreground.                             *)
g == games
Playing(step) == Foreground("game", step)
Goes(step) == at' = step /\ UNCHANGED <<program, games>>

(* game_main: two queues and SongPlayer, and the first order.              *)
StartMusic ==
    /\ Playing("music") /\ Goes("first")
    /\ ends' = ends \cup {End("toSong", g, "game"), End("fromSong", g, "game")}
    /\ player' = [player EXCEPT ![g] = "open"]
    /\ UNCHANGED <<shellVars, menu, song, note, receiver, toSong, toGame, toReceiver, userVars, mode, speaker, history, machine>>

Order(n) == Len(toSong[g]) < SongRoom /\ toSong' = [toSong EXCEPT ![g] = Append(@, n)]
FirstOrder ==
    /\ Playing("first") /\ Goes("input") /\ Order(2)
    /\ UNCHANGED <<shellVars, menu, songVars, receiver, toGame, toReceiver, ends, userVars, mode, speaker, history, machine>>

(* initGame: two queues and InputReceiver.                                 *)
StartInput ==
    /\ Playing("input") /\ Goes("drain") /\ menu' = FALSE
    /\ ends' = ends \cup {End("toGame", g, "game"), End("toReceiver", g, "game")}
    /\ receiver' = [receiver EXCEPT ![g] = "raw"]
    /\ UNCHANGED <<shellVars, songVars, toSong, toGame, toReceiver, userVars, mode, speaker, history, machine>>

(* isPlayerJumping empties the queue: of what it finds, ESC opens the menu.*)
Drain ==
    /\ Playing("drain")
    /\ IF toGame[g] = <<>>
       THEN Goes("move") /\ UNCHANGED <<menu, toGame>>
       ELSE /\ Goes("drain") /\ toGame' = [toGame EXCEPT ![g] = Tail(@)]
            /\ menu' = (menu \/ Head(toGame[g]) = 2)
    /\ UNCHANGED <<shellVars, songVars, receiver, toSong, toReceiver, ends, userVars, mode, speaker, history, machine>>

(* The rest of update(): a collision, the menu, or the next round.         *)
Move ==
    /\ Playing("move")
    /\ \/ Goes("over")
       \/ Goes(IF menu THEN "menu" ELSE "drain")
    /\ UNCHANGED <<shellVars, menu, songVars, receiver, queueVars, userVars, mode, speaker, history, machine>>

Menu ==
    /\ Playing("menu") /\ toGame[g] # <<>>
    /\ toGame' = [toGame EXCEPT ![g] = Tail(@)]
    /\ LET msg == Head(toGame[g]) IN
         /\ menu' = (msg # 2)
         /\ Goes(CASE msg = 2 -> "drain" [] msg = 3 -> "over" [] OTHER -> "menu")
         /\ IF msg > 3 THEN Order(msg - 4) ELSE UNCHANGED toSong
    /\ UNCHANGED <<shellVars, songVars, receiver, toReceiver, ends, userVars, mode, speaker, history, machine>>

(* gameOver: a last song, four seconds, and an order to end for each helper.*)
GameOverSong ==
    /\ Playing("over") /\ Goes("sleep") /\ Order(3)
    /\ UNCHANGED <<shellVars, menu, songVars, receiver, toGame, toReceiver, ends, userVars, mode, speaker, history, machine>>
(* Four seconds are enough for the helpers to have opened their queues.    *)
GameOverLag ==
    /\ Playing("sleep") /\ player[g] # "open" /\ receiver[g] \notin {"raw", "open"}
    /\ Goes("end")
    /\ UNCHANGED <<shellVars, menu, songVars, receiver, queueVars, userVars, mode, speaker, history, machine>>
EndMusic ==
    /\ Playing("end") /\ Goes("end1") /\ Order(-1)
    /\ UNCHANGED <<shellVars, menu, songVars, receiver, toGame, toReceiver, ends, userVars, mode, speaker, history, machine>>

(* The eight bytes of the message 0, with a tick between them or not.      *)
EndInput ==
    /\ \/ Playing("end1") /\ Goes("end2")
       \/ Playing("end2") /\ Goes("close")
    /\ toReceiver' = [toReceiver EXCEPT ![g] = Append(@, at)]
    /\ UNCHANGED <<shellVars, menu, songVars, receiver, toSong, toGame, ends, userVars, mode, speaker, history, machine>>

(* playGame closes its four queues.                                        *)
CloseUsed(h, process) == ends' = {e \in ends : e[1] = "fromSong" \/ ~(e[2] = h /\ e[3] = process)}
Close(h, process) == ends' = {e \in ends : ~(e[2] = h /\ e[3] = process)}
GameEndsTyping ==
    /\ Playing("close") /\ Goes("done") /\ mode' = "TTY"
    /\ Close(g, "game")
    /\ UNCHANGED <<shellVars, menu, songVars, receiver, toSong, toGame, toReceiver, userVars, speaker, history, machine>>
GameEnds ==
    /\ Playing("close") /\ Goes("done")
    /\ Close(g, "game")
    /\ UNCHANGED <<shellVars, menu, songVars, receiver, toSong, toGame, toReceiver, userVars, mode, speaker, history, machine>>

-----------------------------------------------------------------------------
(* SongPlayer: takes an order, and plays that song over and over until there*)
(* is another one.  It looks at the queue before every note.               *)
PlayerOpens(h) ==
    /\ player[h] = "open" /\ player' = [player EXCEPT ![h] = "receive"]
    /\ ends' = ends \cup {End("toSong", h, "player"), End("fromSong", h, "player")}
    /\ UNCHANGED <<shellVars, gameVars, song, note, receiver, toSong, toGame, toReceiver, userVars, mode, speaker, history, machine>>

IsSong(n) == n \in DOMAIN Songs
AfterErrorFirst(n) == IF IsSong(n) THEN "play" ELSE "receive"
After(n) == CASE n = -1 -> "stop" [] IsSong(n) -> "play" [] OTHER -> "receive"
PlayerReceives(h) ==
    /\ player[h] = "receive" /\ toSong[h] # <<>>
    /\ toSong' = [toSong EXCEPT ![h] = Tail(@)]
    /\ LET n == Head(toSong[h]) IN
         /\ player' = [player EXCEPT ![h] = After(n)]
         /\ song' = [song EXCEPT ![h] = IF IsSong(n) THEN n ELSE 0]
         /\ note' = [note EXCEPT ![h] = 0]
         /\ speaker' = (speaker /\ n # 0)
    /\ UNCHANGED <<shellVars, gameVars, receiver, toGame, toReceiver, ends, userVars, mode, history, machine>>

PlayNote(h) ==
    /\ player[h] = "play"
    /\ CASE note[h] = Songs[song[h]] ->
              note' = [note EXCEPT ![h] = 0] /\ speaker' = FALSE /\ UNCHANGED <<player, song>>
         [] note[h] < Songs[song[h]] /\ toSong[h] = <<>> ->
              note' = [note EXCEPT ![h] = @ + 1] /\ speaker' = TRUE /\ UNCHANGED <<player, song>>
         [] note[h] < Songs[song[h]] /\ toSong[h] # <<>> ->
              /\ player' = [player EXCEPT ![h] = "receive"] /\ UNCHANGED speaker
              /\ song' = [song EXCEPT ![h] = 0] /\ note' = [note EXCEPT ![h] = 0]
    /\ UNCHANGED <<shellVars, gameVars, receiver, queueVars, userVars, mode, history, machine>>

PlayerEnds(h) ==
    /\ player[h] = "stop" /\ player' = [player EXCEPT ![h] = "done"]
    /\ speaker' = FALSE /\ Close(h, "player")
    /\ UNCHANGED <<shellVars, gameVars, song, note, receiver, toSong, toGame, toReceiver, userVars, mode, history, machine>>

SongPlayer(h) == PlayerOpens(h) \/ PlayerReceives(h) \/ PlayNote(h) \/ PlayerEnds(h)

-----------------------------------------------------------------------------
(* InputReceiver: raw mode, its two queues, and then a scan code for every *)
(* look at the queue that may tell it to end.                              *)
ReceiverGoes(h, step) == receiver' = [receiver EXCEPT ![h] = step]
ReceiverStarts(h) ==
    /\ \/ receiver[h] = "raw" /\ ReceiverGoes(h, "open") /\ mode' = "RAW" /\ UNCHANGED ends
       \/ /\ receiver[h] = "open" /\ ReceiverGoes(h, "check") /\ UNCHANGED mode
          /\ ends' = ends \cup {End("toGame", h, "receiver"), End("toReceiver", h, "receiver")}
    /\ UNCHANGED <<shellVars, gameVars, songVars, toSong, toGame, toReceiver, userVars, speaker, history, machine>>

(* checkEnd: its end does not block, so it takes what is there of a message*)
(* into an uninitialised variable, and a part of one may look like anything.*)
Whole(h) == Len(toReceiver[h]) = 2
checkEnd(h) ==
    /\ receiver[h] = "check"
    /\ toReceiver' = [toReceiver EXCEPT ![h] = <<>>]
    /\ torn' = IF toReceiver[h] # <<>> /\ ~Whole(h) THEN torn \cup {h} ELSE torn
    /\ \/ ~Whole(h) /\ ReceiverGoes(h, "read")
       \/ toReceiver[h] # <<>> /\ ReceiverGoes(h, "close")
    /\ UNCHANGED <<shellVars, gameVars, songVars, toSong, toGame, ends, userVars, mode, speaker, overlap, machine>>

(* processInput: the message of a key; 0 is none.                          *)
processInput == [other |-> 0, w |-> 1, esc |-> 2, e |-> 3, one |-> 4, two |-> 5, three |-> 6]
getScanCode(h) ==
    /\ receiver[h] = "read" /\ raw # <<>> /\ raw' = Tail(raw)
    /\ ReceiverGoes(h, "check")
    /\ LET input == processInput[Head(raw)] IN
         toGame' = IF input = 0 THEN toGame ELSE [toGame EXCEPT ![h] = Append(@, input)]
    /\ UNCHANGED <<shellVars, gameVars, songVars, toSong, toReceiver, ends, lines, keys, stdin, mode, speaker, history, machine>>

ReceiverEnds(h) ==
    /\ \/ receiver[h] = "close" /\ ReceiverGoes(h, "keys") /\ Close(h, "receiver") /\ UNCHANGED mode
       \/ receiver[h] = "keys" /\ ReceiverGoes(h, "done") /\ mode' = "TTY" /\ UNCHANGED ends
    /\ UNCHANGED <<shellVars, gameVars, songVars, toSong, toGame, toReceiver, userVars, speaker, history, machine>>

InputReceiver(h) == ReceiverStarts(h) \/ checkEnd(h) \/ getScanCode(h) \/ ReceiverEnds(h)

-----------------------------------------------------------------------------
Game == StartMusic \/ FirstOrder \/ StartInput \/ Drain \/ Move \/ Menu
          \/ GameOverSong \/ GameOverLag \/ EndMusic \/ EndInput \/ GameEnds
Program == Quiet \/ Poweroff \/ Reboot \/ TestMQ \/ Beep \/ Piano \/ Game
Shell == ReadCommand \/ Waited \/ ShellEnds
User == (\E line \in Lines : Type(line)) \/ (\E key \in Keys : Press(key))

Next ==
    /\ machine = "on"
    /\ \/ User \/ Shell \/ InitEnds \/ Program \/ finishKernel
       \/ \E h \in Games : SongPlayer(h) \/ InputReceiver(h)

Spec == Init /\ [][Next]_vars

(* The scheduler gives every process its turn; the user may stop at any    *)
(* time.                                                                   *)
On(A) == machine = "on" /\ A
FairSpec ==
    /\ Spec
    /\ WF_vars(On(Shell)) /\ WF_vars(On(InitEnds)) /\ WF_vars(On(Program)) /\ WF_vars(On(finishKernel))
    /\ \A h \in Games : WF_vars(On(SongPlayer(h))) /\ WF_vars(On(InputReceiver(h)))

-----------------------------------------------------------------------------
Gone(h) == player[h] \in {"none", "done"} /\ receiver[h] \in {"none", "done"}

(* Once the shell alone is left, whatever ran and however it ended: the    *)
(* speaker is silent, the keyboard types into the terminal, and every queue*)
(* is closed but those of the mq command.                                  *)
LeavesNothingBehind ==
    at = "done" /\ (\A h \in Games : Gone(h)) =>
       speaker = FALSE /\ mode = "TTY" /\ \A e \in ends : e[3] = "mq"

(* Who waits for a key in raw mode gets it, unless the program was started *)
(* while the receiver of an earlier game was still there: that one puts the*)
(* keyboard back in TTY mode when it ends.                                 *)
RawReaderIsHeard ==
    ~overlap =>
       /\ program = "piano" /\ at = "read" => mode = "RAW"
       /\ \A h \in Games : receiver[h] = "read" => mode = "RAW"

(* A game that is over leaves no helper: SongPlayer ends, and InputReceiver*)
(* too unless it waits for a key that was not pressed, or missed the order.*)
WaitsForKey(h) == receiver[h] = "read" /\ raw = <<>>
HelpersEnd ==
    \A h \in Games : (games >= h /\ ~(games = h /\ program = "game" /\ at # "done")) ~>
       \/ machine # "on"
       \/ player[h] = "done" /\ (receiver[h] = "done" \/ WaitsForKey(h) \/ h \in torn)
=============================================================================
