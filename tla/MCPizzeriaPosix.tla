--------------------------- MODULE MCPizzeriaPosix ---------------------------
(* Small instances of PizzeriaPosix.                                         *)
EXTENDS PizzeriaPosix, TLC

Symmetry == Permutations(Cooks)
==============================================================================
