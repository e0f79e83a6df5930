----------------------------- MODULE BasicFile -----------------------------
(***************************************************************************)
(* The circular byte file behind every message queue (Kernel/c/basicFile.c)*)
(* driven by the one process that may read it and the one that may write   *)
(* it (MQ readPID / writePID), each inside a read or write system call     *)
(* (scheduler.c waitForInput / waitForOutput).  System calls run with      *)
(* interrupts enabled, so the timer may switch between the two processes   *)
(* between any two accesses to the shared struct basicFile_s: every action *)
(* below accesses it at most once, in the order of the code.               *)
(***************************************************************************)
EXTENDS Integers, Sequences

CONSTANTS Byte,      \* the values of a char
          Size,      \* file->size; PAGE_SIZE for a message queue
          MaxBytes,  \* the largest maxBytes a call asks for
          EOF        \* what basicFileReadChar returns of an empty file

ASSUME SizeAssumption     == Size \in Nat \ {0}
ASSUME MaxBytesAssumption == MaxBytes \in Nat \ {0}

VARIABLES
  stream, writeIndex, readIndex,         \* struct basicFile_s
  rpc, wanted, rblocking, readData, c,   \* the reader: waitForInput's locals
  got,                                   \* the last buffer[readData] it filled in
  wpc, offered, wblocking, written, char \* the writer: waitForOutput's locals

file     == <<stream, writeIndex, readIndex>>
reader   == <<rpc, wanted, rblocking, readData, c, got>>
writer   == <<wpc, offered, wblocking, written, char>>
fileVars == <<file, reader, writer>>

Index == 0..(Size - 1)

RPC == {"user", "test", "check", "load", "advance", "deliver"}
WPC == {"user", "test1", "test2", "check1", "check2", "store", "advance", "count"}

(* The page comes from the pool uncleared; both indices start at 0.        *)
FileInit ==
  /\ stream \in [Index -> Byte]
  /\ writeIndex = 0
  /\ readIndex = 0
  /\ rpc = "user" /\ wanted = 1 /\ rblocking = TRUE /\ readData = 0
  /\ c \in Byte /\ got = c
  /\ wpc = "user" /\ offered = 1 /\ wblocking = TRUE /\ written = 0 /\ char \in Byte

-----------------------------------------------------------------------------
(* Mutants (each replaces the definition it is named after):               *)
(* an ordering test for emptiness; no test for a full file that ends at its*)
(* last slot; one index for full and empty; a writer that does not heed    *)
(* IS_FULL's first half.                                                   *)
IsEmptyOrdered  == writeIndex < readIndex
IsFull2Missing  == FALSE
IsFull1AsEmpty  == readIndex # 0 /\ writeIndex = readIndex
WriteTest1Unheeded ==
  /\ wpc = "test1"
  /\ wpc' = "test2"
  /\ UNCHANGED <<file, reader, offered, wblocking, written, char>>

(* basicFileIsEmpty, and the two disjuncts basicFileIsFull evaluates one   *)
(* after the other.  The indices are unsigned: readIndex - 1 is 2^64 - 1   *)
(* when readIndex = 0, which no writeIndex equals.                         *)
IsEmpty == writeIndex = readIndex
IsFull1 == readIndex # 0 /\ writeIndex = readIndex - 1
IsFull2 == writeIndex >= Size - 1 /\ readIndex = 0

(* The index after i, wrapping around the end of the file.                 *)
Advance(i) == IF i >= Size - 1 THEN 0 ELSE i + 1

-----------------------------------------------------------------------------
(* The reader.                                                             *)

(* read(fd, buffer, n), blocking unless the descriptor has F_NOBLOCK       *)
ReadCall ==
  /\ rpc = "user"
  /\ wanted' \in 1..MaxBytes
  /\ rblocking' \in BOOLEAN
  /\ readData' = 0
  /\ rpc' = "test"
  /\ UNCHANGED <<file, writer, c, got>>

(* IS_EMPTY: an empty file makes a blocking reader yield and test again,   *)
(* and a non-blocking one return what it has.                              *)
ReadTest ==
  /\ rpc = "test"
  /\ rpc' = IF ~IsEmpty THEN "check" ELSE IF rblocking THEN "test" ELSE "user"
  /\ UNCHANGED <<file, writer, wanted, rblocking, readData, c, got>>

(* basicFileReadChar tests again.  An empty file now gives EOF, which      *)
(* operate() does not tell from success: it lands in the buffer.           *)
ReadCheck ==
  /\ rpc = "check"
  /\ IF IsEmpty THEN c' = EOF /\ rpc' = "deliver"
                ELSE c' = c   /\ rpc' = "load"
  /\ UNCHANGED <<file, writer, wanted, rblocking, readData, got>>

ReadLoad ==
  /\ rpc = "load"
  /\ c' = stream[readIndex]
  /\ rpc' = "advance"
  /\ UNCHANGED <<file, writer, wanted, rblocking, readData, got>>

ReadAdvance ==
  /\ rpc = "advance"
  /\ readIndex' = Advance(readIndex)
  /\ rpc' = "deliver"
  /\ UNCHANGED <<stream, writeIndex, writer, wanted, rblocking, readData, c, got>>

(* buffer[readData++] = c, then the loop's condition                       *)
ReadDeliver ==
  /\ rpc = "deliver"
  /\ got' = c
  /\ readData' = readData + 1
  /\ rpc' = IF readData + 1 < wanted THEN "test" ELSE "user"
  /\ UNCHANGED <<file, writer, wanted, rblocking, c>>

-----------------------------------------------------------------------------
(* The writer.                                                             *)

WriteCall ==
  /\ wpc = "user"
  /\ offered' \in 1..MaxBytes
  /\ wblocking' \in BOOLEAN
  /\ written' = 0
  /\ wpc' = "test1"
  /\ UNCHANGED <<file, reader, char>>

WhenFull == IF wblocking THEN "test1" ELSE "user"

WriteTest1 ==
  /\ wpc = "test1"
  /\ wpc' = IF IsFull1 THEN WhenFull ELSE "test2"
  /\ UNCHANGED <<file, reader, offered, wblocking, written, char>>

(* not full: c = buffer[writtenData], whatever the user put there          *)
WriteTest2 ==
  /\ wpc = "test2"
  /\ IF IsFull2 THEN wpc' = WhenFull /\ char' = char
                ELSE wpc' = "check1" /\ char' \in Byte
  /\ UNCHANGED <<file, reader, offered, wblocking, written>>

(* basicFileWriteChar tests again.  A full file now drops the byte, and    *)
(* operate() counts it as written.                                         *)
WriteCheck1 ==
  /\ wpc = "check1"
  /\ wpc' = IF IsFull1 THEN "count" ELSE "check2"
  /\ UNCHANGED <<file, reader, offered, wblocking, written, char>>

WriteCheck2 ==
  /\ wpc = "check2"
  /\ wpc' = IF IsFull2 THEN "count" ELSE "store"
  /\ UNCHANGED <<file, reader, offered, wblocking, written, char>>

WriteStore ==
  /\ wpc = "store"
  /\ stream' = [stream EXCEPT ![writeIndex] = char]
  /\ wpc' = "advance"
  /\ UNCHANGED <<writeIndex, readIndex, reader, offered, wblocking, written, char>>

WriteAdvance ==
  /\ wpc = "advance"
  /\ writeIndex' = Advance(writeIndex)
  /\ wpc' = "count"
  /\ UNCHANGED <<stream, readIndex, reader, offered, wblocking, written, char>>

WriteCount ==
  /\ wpc = "count"
  /\ written' = written + 1
  /\ wpc' = IF written + 1 < offered THEN "test1" ELSE "user"
  /\ UNCHANGED <<file, reader, offered, wblocking, char>>

-----------------------------------------------------------------------------
Reader == \/ ReadCall \/ ReadTest \/ ReadCheck
          \/ ReadLoad \/ ReadAdvance \/ ReadDeliver

Writer == \/ WriteCall \/ WriteTest1 \/ WriteTest2 \/ WriteCheck1 \/ WriteCheck2
          \/ WriteStore \/ WriteAdvance \/ WriteCount

FileNext == Reader \/ Writer

FileSpec == FileInit /\ [][FileNext]_fileVars

(* Both processes keep using the file, and the round-robin scheduler gives *)
(* each of them the CPU again and again.                                   *)
FairSpec == FileSpec /\ WF_fileVars(Reader) /\ WF_fileVars(Writer)

-----------------------------------------------------------------------------
(* Both indices stay inside the file, and neither loop of the system calls *)
(* steps past the maxBytes of the caller's buffer.                         *)
FileTypeOK ==
  /\ stream \in [Index -> Byte]
  /\ writeIndex \in Index /\ readIndex \in Index
  /\ rpc \in RPC /\ wanted \in 1..MaxBytes /\ rblocking \in BOOLEAN
  /\ readData \in 0..wanted /\ (rpc # "user" => readData < wanted)
  /\ c \in Byte \cup {EOF} /\ got \in Byte \cup {EOF}
  /\ wpc \in WPC /\ offered \in 1..MaxBytes /\ wblocking \in BOOLEAN
  /\ written \in 0..offered /\ (wpc # "user" => written < offered)
  /\ char \in Byte

(* The bytes in the file, oldest first: writeIndex is where the next goes, *)
(* so that one slot of the Size is never used.                             *)
Count == IF writeIndex >= readIndex THEN writeIndex - readIndex
                                    ELSE writeIndex - readIndex + Size
SlotOf(i) == IF readIndex + i - 1 < Size THEN readIndex + i - 1
                                       ELSE readIndex + i - 1 - Size
Contents == [i \in 1..Count |-> stream[SlotOf(i)]]

(* What the reader took last: it keeps the byte in c until it delivers it. *)
LastTaken == IF rpc = "deliver" THEN c ELSE got

(* Reading and writing through this file is reading and writing a FIFO of  *)
(* Size - 1 bytes: no byte is lost, repeated, reordered or made up, in     *)
(* spite of the indices being shared without a lock.                       *)
FIFO == INSTANCE BoundedFIFO
          WITH Item <- Byte, Capacity <- Size - 1, queue <- Contents, last <- LastTaken
ImplementsFIFO == FIFO!Spec

(* basicFileReadChar never loads from the slot basicFileWriteChar is       *)
(* storing to, however the timer interleaves them.                         *)
NoSlotRace == ~(rpc = "load" /\ wpc = "store" /\ readIndex = writeIndex)

(* What IS_EMPTY or IS_FULL answered is still so when the operation it     *)
(* allowed tests again: waitForInput never stores an EOF it takes for data *)
(* and waitForOutput never counts a byte that was dropped.                 *)
AnswersStayTrue ==
  /\ rpc \in {"check", "load", "advance"} => ~IsEmpty
  /\ wpc \in {"check1", "check2", "store", "advance"} => ~(IsFull1 \/ IsFull2)

(* The two ends never wait for each other: as long as both keep calling,   *)
(* bytes keep arriving and keep being accepted.                            *)
BytesKeepFlowing == []<>(rpc = "deliver") /\ []<>(wpc = "count")
=============================================================================
