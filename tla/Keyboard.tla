------------------------------ MODULE Keyboard ------------------------------
(***************************************************************************)
(* The keyboard: its interrupt handler (Kernel/c/keyboard.c), the standard *)
(* input it fills in TTY mode (Kernel/c/tty.c), the raw keys it fills in   *)
(* RAW mode (Kernel/c/rawKeys.c), and the process that reads them, one     *)
(* byte at a time, through waitForInput (Kernel/c/scheduler.c).            *)
(*                                                                         *)
(* The handler runs with interrupts off.  The reader is in a system call,  *)
(* with interrupts on: a key may come between any two accesses to the      *)
(* buffer.  KeyPoints and ErasePoints are the program points at which it   *)
(* may, in a run; the code excludes none.                                  *)
(*                                                                         *)
(* The echo on the screen (ttyKBDPrintChar, backSpaceLimit) is left out:   *)
(* nothing that is read depends on it.                                     *)
(***************************************************************************)
EXTENDS Integers, Sequences, FiniteSets

CONSTANTS
  StdinSize,     \* STDIN_BUFFER_SIZE
  RawSize,       \* RAW_BUFFER_SIZE
  Keys,          \* bound: the scan codes that come, of ScanCode
  Modes,         \* bound: the keyboard modes that are used
  MaxBytes,      \* bound: the bytes one call of read asks for
  MaxRepeats,    \* bound: how often a shift key held down repeats
  KeyPoints,     \* where the reader may be when a key comes
  ErasePoints    \* where it may be when a backspace comes

(* One scan code of each kind analizeScanCode and processModifierKey tell  *)
(* apart; "other" stands for function keys and for keys let go.            *)
Letters   == {"letter"}
Numbers   == {"number"}
Symbols   == {"symbol", "enter", "backspace"}
Modifiers == {"lshift", "lshiftUp", "rshift", "rshiftUp", "caps", "num"}
ScanCode  == Letters \cup Numbers \cup Symbols \cup Modifiers \cup {"other"}

(* A character: its key, and whether it comes from shiftedCharTable, where *)
(* Enter and Backspace are what they are in charTable.                     *)
Character == [key : Letters \cup Numbers \cup Symbols, shifted : BOOLEAN]
Newline   == [key |-> "enter", shifted |-> FALSE]
Backspace == [key |-> "backspace", shifted |-> FALSE]

Device == {"stdin", "raw"}
Mode   == {"TTY", "RAW"}

Point == {"user", "test", "check", "deqLoad", "deqStore", "take", "sizeLoad",
          "sizeStore", "wrap", "dataLoad", "dataStore"}

ASSUME SizesAssumption ==
  /\ StdinSize \in Nat \ {0} /\ RawSize \in Nat \ {0} /\ MaxBytes \in Nat \ {0}
  /\ MaxRepeats \in Nat
ASSUME KeysAssumption   == Keys \subseteq ScanCode /\ "TTY" \in Modes /\ Modes \subseteq Mode
ASSUME PointsAssumption == KeyPoints \subseteq Point /\ ErasePoints \subseteq KeyPoints

VARIABLES
  stdin, raw,                    \* the two circular buffers
  keyboardMode, caps, num, shift,
  held,                          \* history: the shift keys held down,
  repeats,                       \* and the repeats they sent
  pc, call,                      \* the reader, and the locals of its call
  taken                          \* history: the byte last read of each device

buffers  == <<stdin, raw>>
keyboard == <<keyboardMode, caps, num, shift, held, repeats>>
vars     == <<buffers, keyboard, pc, call, taken>>

Size(d) == IF d = "stdin" THEN StdinSize ELSE RawSize

NoCall == [device |-> "stdin", left |-> 0, index |-> 0, value |-> 0, byte |-> Newline]

(* The statics are zero; both tables of characters hold the same in them.  *)
Init ==
  /\ stdin = [buffer |-> [i \in 0..(StdinSize - 1) |-> Newline],
              size |-> 0, enqIdx |-> 0, deqIdx |-> 0, hasData |-> 0]
  /\ raw = [buffer |-> [i \in 0..(RawSize - 1) |-> "other"],
            size |-> 0, enqIdx |-> 0, deqIdx |-> 0]
  /\ keyboardMode = "TTY" /\ caps = 0 /\ num = 1 /\ shift = 0 /\ held = {}
  /\ repeats = 0
  /\ pc = "user" /\ call = NoCall
  /\ taken = [d \in Device |-> IF d = "stdin" THEN Newline ELSE "other"]

-----------------------------------------------------------------------------
(* The handler: processModifierKey on the flags, shift being a uint8_t     *)
(* that adds up the codes of the shift keys held.                          *)
Code(k) == IF k \in {"lshift", "lshiftUp"} THEN 42 ELSE 54

(* Mutant: letting go of either key takes the left one's code away.        *)
processModifierKeyLeft(k) ==
  /\ shift' = CASE k \in {"lshift", "rshift"}     -> (shift + Code(k)) % 256
                [] k \in {"lshiftUp", "rshiftUp"} -> (shift - 42) % 256
                [] OTHER                          -> shift
  /\ caps' = IF k = "caps" THEN 1 - caps ELSE caps
  /\ num'  = IF k = "num"  THEN 1 - num  ELSE num

processModifierKey(k) ==
  /\ shift' = CASE k \in {"lshift", "rshift"}     -> (shift + Code(k)) % 256
                [] k \in {"lshiftUp", "rshiftUp"} -> (shift - Code(k)) % 256
                [] OTHER                          -> shift
  /\ caps' = IF k = "caps" THEN 1 - caps ELSE caps
  /\ num'  = IF k = "num"  THEN 1 - num  ELSE num

(* ttySTDINAddElement: a letter is shifted when shift and caps lock differ,*)
(* a number when shift and num lock agree.                                 *)
Decode(k) ==
  LET isShifted == shift # 0
      other == CASE k \in Letters -> isShifted # (caps = 1)
                 [] k \in Numbers -> isShifted = (num = 1)
                 [] OTHER         -> isShifted
  IN [key |-> k, shifted |-> other /\ k \notin {"enter", "backspace"}]

-----------------------------------------------------------------------------
(* The end of a circular buffer: enq puts, deq skips.  b.size is tested    *)
(* for equality only, so what is below zero counts as a large number.      *)
Next1(d, i) == IF i + 1 = Size(d) THEN 0 ELSE i + 1

enq(d, b, x) == [b EXCEPT !.buffer[b.enqIdx] = x, !.size = @ + 1, !.enqIdx = Next1(d, @)]

(* Mutant of stdinEnqueueChar: the end of a line that fills the buffer is  *)
(* not counted.                                                            *)
stdinEnqueueCharUncounted(c) ==
  IF stdin.size = StdinSize THEN stdin ELSE
  LET ends == stdin.size + 1 = StdinSize IN
  [enq("stdin", stdin, IF ends THEN Newline ELSE c)
     EXCEPT !.hasData = IF c = Newline THEN @ + 1 ELSE @]
(* A character that fills the buffer is lost to the end of a line.         *)
stdinEnqueueChar(c) ==
  IF stdin.size = StdinSize THEN stdin ELSE
  LET ends == stdin.size + 1 = StdinSize IN
  [enq("stdin", stdin, IF ends THEN Newline ELSE c)
     EXCEPT !.hasData = IF ends \/ c = Newline THEN @ + 1 ELSE @]

(* stdinDequeueChar, as the handler runs it on a backspace                 *)
stdinErase ==
  IF stdin.size = 0 THEN stdin ELSE
  [stdin EXCEPT !.size = @ - 1, !.deqIdx = Next1("stdin", @),
                !.hasData = IF stdin.buffer[stdin.deqIdx] = Newline THEN @ - 1 ELSE @]

(* Mutant of rawEnqueueKey: a full buffer is written all the same.         *)
rawEnqueueKeyOverrun(k) == enq("raw", raw, k)
rawEnqueueKey(k) == IF raw.size = RawSize THEN raw ELSE enq("raw", raw, k)

ttySTDINAddElement(k) ==
  CASE k \notin Letters \cup Numbers \cup Symbols -> stdin
    [] Decode(k) = Backspace                      -> stdinErase
    [] OTHER                                      -> stdinEnqueueChar(Decode(k))

(* The interrupt.  Shift keys go down and come up again; held down for     *)
(* long, they send the code they went down with again, and it is added to  *)
(* shift again.                                                            *)
attendKeyboard(k) ==
  /\ pc \in IF k = "backspace" THEN ErasePoints ELSE KeyPoints
  /\ k \in held => repeats < MaxRepeats
  /\ k = "lshiftUp" => "lshift" \in held
  /\ k = "rshiftUp" => "rshift" \in held
  /\ held' = CASE k \in {"lshift", "rshift"} -> held \cup {k}
               [] k = "lshiftUp"             -> held \ {"lshift"}
               [] k = "rshiftUp"             -> held \ {"rshift"}
               [] OTHER                      -> held
  /\ repeats' = IF k \in held THEN repeats + 1 ELSE repeats
  /\ processModifierKey(k)
  /\ IF keyboardMode = "TTY"
     THEN stdin' = ttySTDINAddElement(k) /\ UNCHANGED raw
     ELSE raw' = rawEnqueueKey(k) /\ UNCHANGED stdin
  /\ UNCHANGED <<keyboardMode, pc, call, taken>>

-----------------------------------------------------------------------------
(* The process: it changes the mode, and reads either device.              *)
changeMode(m) ==
  /\ pc = "user" /\ keyboardMode # m
  /\ keyboardMode' = m
  /\ UNCHANGED <<buffers, caps, num, shift, held, repeats, pc, call, taken>>

CallRead(d, bytes) ==
  /\ pc = "user"
  /\ call' = [NoCall EXCEPT !.device = d, !.left = bytes]
  /\ pc' = "test"
  /\ UNCHANGED <<buffers, keyboard, taken>>

(* The buffer the reader is at, and what a step does to it.                *)
Buffer == IF call.device = "stdin" THEN stdin ELSE raw
Becomes(b) == IF call.device = "stdin" THEN stdin' = b /\ UNCHANGED raw
                                       ELSE raw' = b /\ UNCHANGED stdin

Goto(p) == pc' = p /\ UNCHANGED keyboard

(* waitForInput asks whether the device is empty: the standard input is    *)
(* as long as it holds no end of a line.                                   *)
stdinIsEmpty == stdin.hasData = 0
rawIsEmpty   == raw.size = 0

(* With nothing to read it yields, and asks again.                         *)
Test ==
  /\ pc = "test"
  /\ IF call.device = "stdin" THEN ~stdinIsEmpty ELSE ~rawIsEmpty
  /\ Goto("check") /\ UNCHANGED <<buffers, call, taken>>

(* stdinDequeueChar and rawDequeueKey.  A read that finds nothing now ends *)
(* the call.                                                               *)
Check ==
  /\ pc = "check"
  /\ IF Buffer.size = 0 THEN Goto("user") /\ call' = NoCall
                        ELSE Goto("deqLoad") /\ UNCHANGED call
  /\ UNCHANGED <<buffers, taken>>

DeqLoad ==
  /\ pc = "deqLoad"
  /\ call' = [call EXCEPT !.index = Buffer.deqIdx]
  /\ Goto("deqStore") /\ UNCHANGED <<buffers, taken>>

DeqStore ==
  /\ pc = "deqStore"
  /\ Becomes([Buffer EXCEPT !.deqIdx = call.index + 1])
  /\ Goto("take") /\ UNCHANGED <<call, taken>>

(* Mutant of Take: the byte at the index after.                            *)
TakeAfter ==
  /\ pc = "take"
  /\ call' = [call EXCEPT !.byte = Buffer.buffer[Next1(call.device, call.index)]]
  /\ Goto("sizeLoad") /\ UNCHANGED <<buffers, taken>>
Take ==
  /\ pc = "take"
  /\ call' = [call EXCEPT !.byte = Buffer.buffer[call.index]]
  /\ Goto("sizeLoad") /\ UNCHANGED <<buffers, taken>>

SizeLoad ==
  /\ pc = "sizeLoad"
  /\ call' = [call EXCEPT !.value = Buffer.size]
  /\ Goto("sizeStore") /\ UNCHANGED <<buffers, taken>>

SizeStore ==
  /\ pc = "sizeStore"
  /\ Becomes([Buffer EXCEPT !.size = call.value - 1])
  /\ taken' = [taken EXCEPT ![call.device] = call.byte]
  /\ Goto("wrap") /\ UNCHANGED call

(* The end of the reading of a byte: waitForInput counts it and goes on,   *)
(* up to the end of a line of the standard input.                          *)
Deliver(c) ==
  IF c.left = 1 \/ (c.device = "stdin" /\ c.byte = Newline)
  THEN Goto("user") /\ call' = NoCall
  ELSE Goto("test") /\ call' = [NoCall EXCEPT !.device = c.device, !.left = c.left - 1]

Wrap ==
  /\ pc = "wrap"
  /\ Becomes([Buffer EXCEPT !.deqIdx = IF @ = Size(call.device) THEN 0 ELSE @])
  /\ IF call.device = "stdin" /\ call.byte = Newline
     THEN Goto("dataLoad") /\ UNCHANGED call
     ELSE Deliver(call)
  /\ UNCHANGED taken

DataLoad ==
  /\ pc = "dataLoad"
  /\ call' = [call EXCEPT !.value = stdin.hasData]
  /\ Goto("dataStore") /\ UNCHANGED <<buffers, taken>>

DataStore ==
  /\ pc = "dataStore"
  /\ stdin' = [stdin EXCEPT !.hasData = call.value - 1]
  /\ Deliver(call)
  /\ UNCHANGED <<raw, taken>>

Dequeue == Check \/ DeqLoad \/ DeqStore \/ Take \/ SizeLoad \/ SizeStore \/ Wrap

stdinDequeueChar == call.device = "stdin" /\ (Dequeue \/ DataLoad \/ DataStore)
rawDequeueKey    == call.device = "raw" /\ Dequeue

Reader  == \/ \E m \in Modes : changeMode(m)
           \/ \E d \in Device, bytes \in 1..MaxBytes : CallRead(d, bytes)
           \/ Test \/ stdinDequeueChar \/ rawDequeueKey

Next == Reader \/ \E k \in Keys : attendKeyboard(k)

Spec == Init /\ [][Next]_vars

-----------------------------------------------------------------------------
(* The indices stay inside the buffers (but for the moment between the     *)
(* increment and the wrap), and no counter goes below zero.                *)
TypeOK ==
  /\ stdin \in [buffer : [0..(StdinSize - 1) -> Character], size : 0..StdinSize,
                enqIdx : 0..(StdinSize - 1), deqIdx : 0..StdinSize, hasData : 0..(StdinSize + 1)]
  /\ raw \in [buffer : [0..(RawSize - 1) -> ScanCode], size : 0..RawSize,
              enqIdx : 0..(RawSize - 1), deqIdx : 0..RawSize]
  /\ \A d \in Device : LET b == IF d = "stdin" THEN stdin ELSE raw IN
       b.deqIdx = Size(d) => /\ call.device = d
                             /\ pc \in {"take", "sizeLoad", "sizeStore", "wrap"}
  /\ keyboardMode \in Mode /\ caps \in {0, 1} /\ num \in {0, 1} /\ shift \in 0..255
  /\ held \subseteq {"lshift", "rshift"} /\ repeats \in 0..MaxRepeats
  /\ pc \in Point

(* What a buffer of n slots holds, from the slot first on.                 *)
Held(b, first, n) ==
  [i \in 1..b.size |-> b.buffer[IF first + i <= n THEN first + i - 1 ELSE first + i - 1 - n]]

(* What a device holds: between advancing the index and counting the byte  *)
(* out, the byte being read still counts.                                  *)
Contents(d) ==
  LET b == IF d = "stdin" THEN stdin ELSE raw
      busy == call.device = d /\ pc \in {"take", "sizeLoad", "sizeStore"}
  IN Held(b, IF busy THEN call.index ELSE b.deqIdx, Size(d))

(* stdinHasData is the number of ends of lines in the buffer (tty.c:20-23),*)
(* the one just read included until it is counted out.                     *)
HasDataCounts ==
  stdin.hasData =
      Cardinality({i \in DOMAIN Contents("stdin") : Contents("stdin")[i] = Newline})
    + IF pc \in {"wrap", "dataLoad", "dataStore"} /\ call.device = "stdin" /\ call.byte = Newline
      THEN 1 ELSE 0

(* A full buffer can be emptied (tty.c:337): whatever was typed, erased    *)
(* and read before, it holds the end of a line.                            *)
FullCanBeRead == stdin.size = StdinSize => Newline \in {Contents("stdin")[i] : i \in 1..StdinSize}

(* So a reader waits exactly as long as it must: it goes on when, and only *)
(* when, a whole line has been typed, and a full buffer always has one.    *)
LinesAreCounted == TypeOK /\ HasDataCounts /\ FullCanBeRead

(* As long as no shift key was held until it repeated, keys are shifted    *)
(* exactly while one is down, whichever of the two are pressed and let go, *)
(* in whatever order, and in either mode.  A repeat is never taken back    *)
(* (keyboard.c:60): shift stays set once the key is let go.                *)
ShiftMeansHeld == repeats = 0 => (shift # 0 <=> held # {})

(* What is typed is read in that order, each character once, no character  *)
(* without the end of a line to follow it.                                 *)
Lines == INSTANCE LineQueue WITH Capacity <- StdinSize,
           queue <- Contents("stdin"), taken <- taken["stdin"]
ImplementsLineQueue == Lines!Spec

(* The raw keys are a bounded FIFO: scan codes are read in the order they  *)
(* came; the buffer full, they are dropped.                                *)
Raw == INSTANCE BoundedFIFO WITH Item <- ScanCode, Capacity <- RawSize,
         queue <- Contents("raw"), last <- taken["raw"]
RawKeysAreFIFO == Raw!Spec
=============================================================================
