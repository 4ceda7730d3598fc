------------------------------ MODULE MCRegisters ------------------------------
(* Pages of two words, batches of two pages.                               *)
EXTENDS Registers

\* Four bytes that differ, and four that look like headers of a write.
MCWords == {<<255, 1, 2, 3>>, <<34, 34, 34, 34>>}
===============================================================================
