-------------------------- MODULE MCTicTacToeServer --------------------------
(* Small instances of TicTacToeServer.                                       *)
EXTENDS TicTacToeServer, TLC

Symmetry == Permutations(Conns) \cup Permutations(Names)
==============================================================================
