------------------------------- MODULE MCNandRead -------------------------------
(* A NAND of three pages of three words, read whole or without the spare   *)
(* word, that takes up to five ticks for a page.                           *)
EXTENDS NandRead
===============================================================================
