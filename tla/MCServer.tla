------------------------------- MODULE MCServer -------------------------------
(* Server with a client that inserts twice and one, which may die, that    *)
(* only initialises the graph and copies it.                               *)
EXTENDS Server, TLC

CONSTANTS c1, c2

TwoClients   == {c1, c2}
InsertsOfOne == c1 :> 2 @@ c2 :> 0
===============================================================================
