------------------------------- MODULE MCIsdPins -------------------------------
(* The bit-banged bus of the ISD2100 with two bits in a byte.              *)
EXTENDS IsdPins
===============================================================================
