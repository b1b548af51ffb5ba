------------------------------- MODULE MCSanta -------------------------------
(* Small instances of Santa: teams and groups of two, one elf to spare.      *)
EXTENDS Santa, TLC
==============================================================================
