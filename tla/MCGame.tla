------------------------------- MODULE MCGame -------------------------------
(* Model checking of Game on a smaller field: 3 columns instead of 17 and 8*)
(* rows instead of 12, 2 units of time in a game tick.                     *)
EXTENDS Game
MCNewRows == {NoObstacle, 0, 3}

=============================================================================
