------------------------------- MODULE MCSlotWord -------------------------------
(* An instance of SlotWord for TLC: an eight-bit word, tables that are smaller
   and larger than the reach of the word. *)
EXTENDS SlotWord

Sizes == {2, 4, 8}
===============================================================================
