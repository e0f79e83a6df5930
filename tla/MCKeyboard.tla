----------------------------- MODULE MCKeyboard -----------------------------
(* Keyboard with buffers of four characters and two scan codes.            *)
EXTENDS Keyboard

(* Between a load and the store that depends on it.                        *)
LoadStoreWindow == {"sizeStore", "dataStore"}

(* A backspace moves the same end of the buffer as the reader does, and may*)
(* take away what the reader has just found there.                         *)
DequeueWindow == {"check", "deqLoad", "deqStore", "take", "sizeLoad",
                  "sizeStore", "wrap", "dataStore"}

OutsideLoadStore == Point \ LoadStoreWindow
OutsideDequeue   == Point \ DequeueWindow

(* Bound: only one of the two buffers is ever used (the reader is at one of*)
(* them at a time, and a key goes into one of them), and what is typed into*)
(* the standard input is shifted by the left key at most.                  *)
OneBufferUsed ==
  \/ stdin.size = 0 /\ stdin.enqIdx = 0 /\ taken["stdin"] = Newline
     /\ stdin.buffer = [i \in 0..(StdinSize - 1) |-> Newline]
  \/ /\ raw.buffer = [i \in 0..(RawSize - 1) |-> "other"]
     /\ repeats = 0 /\ held \subseteq {"lshift"}
=============================================================================
