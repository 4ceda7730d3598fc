------------------------------ MODULE MCNandWrite ------------------------------
(* A NAND of two erase blocks of four pages and calls that may begin in    *)
(* the middle of one, as they can on a NAND with large blocks.             *)
EXTENDS NandWrite
===============================================================================
