------------------------------- MODULE MCIsd2100 -------------------------------
(* A flash of three words, read two and checked two at a time.             *)
EXTENDS Isd2100
===============================================================================
