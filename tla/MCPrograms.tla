---------------------------- MODULE MCPrograms ----------------------------
(* Model checking of Programs: three lines of commands, a few keys, three  *)
(* songs of one or two notes.                                              *)
EXTENDS Programs
MCSongs == <<1, 1>>
=============================================================================
