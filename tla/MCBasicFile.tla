---------------------------- MODULE MCBasicFile ----------------------------
(* BasicFile with a file of three slots (it holds two bytes), so that both *)
(* indices wrap around, and calls of one or two bytes.                     *)
EXTENDS BasicFile

CONSTANTS a, b, noByte

MCByte == {a, b}
=============================================================================
