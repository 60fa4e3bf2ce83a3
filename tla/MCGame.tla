------------------------------- MODULE MCGame -------------------------------
(***************************************************************************)
(* The game with three keys, two of them of the row it looks at.           *)
(***************************************************************************)
EXTENDS Game

MCKey == {<<3, 0>>, <<3, 3>>, <<1, 2>>}
MCLights == {0, 3}
=============================================================================
