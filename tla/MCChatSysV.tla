------------------------------ MODULE MCChatSysV -----------------------------
(* Small instances of ChatSysV.                                              *)
EXTENDS ChatSysV, TLC

Symmetry == Permutations(Clients)
==============================================================================
