----------------------------- MODULE MCChatPosix -----------------------------
(* Small instances of ChatPosix.                                             *)
EXTENDS ChatPosix, TLC

Symmetry == Permutations(Clients)
==============================================================================
