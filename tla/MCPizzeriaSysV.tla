--------------------------- MODULE MCPizzeriaSysV ----------------------------
(* Small instances of PizzeriaSysV.  Cooks and suppliers are symmetric: no   *)
(* action or invariant tells two of them apart.  (No symmetry under liveness.) *)
EXTENDS PizzeriaSysV, TLC

Symmetry == Permutations(Cooks) \cup Permutations(Suppliers)
==============================================================================
