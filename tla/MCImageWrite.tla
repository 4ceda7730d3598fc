----------------------------- MODULE MCImageWrite -----------------------------
(* Consoles of different revisions and sizes of NAND in turn; erase blocks *)
(* of two, four and eight pages and a code of three bits.                  *)
EXTENDS ImageWrite

MCBlockPages == <<2, 4, 8>>

\* x^3 + x + 1.
MCFeedback == {0, 1, 3}

(* The number of the page in its data, and some spare.                     *)
MCFilePage(k) == [i \in PageBits |-> IF i < DataBits THEN (k \div 2 ^ i) % 2 ELSE (k + i) % 2]

\* Each kind of block and of failure, the case that assigns no size of the
\* data partition, and a shift that is undefined.
MCDevices ==
  {[revision |-> c[1], size |-> c[2], shift |-> c[3]] :
     c \in {<<0, 0, 0>>, <<0, 1, 0>>, <<2, 0, 0>>, <<1, 2, 18>>, <<2, 3, 1>>, <<3, 2, 0>>}}

===============================================================================
