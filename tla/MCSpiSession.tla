----------------------------- MODULE MCSpiSession -----------------------------
(* spi(), spiStop() and spiGetBlocks() on a NAND of eight pages.           *)
EXTENDS SpiSession, TLC

\* A length that is to be ignored and one that counts, in blocks of Unit pages.
MCLengths == {-1, 2}

\* No action and no safety property tells the GUI threads apart.
MCSymmetry == Permutations(UIThreads)

===============================================================================
