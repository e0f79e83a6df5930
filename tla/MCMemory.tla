------------------------------ MODULE MCMemory ------------------------------
(* Memory with heap pages of three words after a header of two, so that    *)
(* blocks of one word share a page and a block of three fills it.          *)
EXTENDS Memory

(* Between two accesses to stackTop, or to it and the slot it leads to.    *)
StackWindow == {"popLoad", "popStore", "popRead", "pushLoad", "pushStore", "pushWrite"}

OutsideWindows == Point \ StackWindow
=============================================================================
