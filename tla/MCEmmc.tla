--------------------------------- MODULE MCEmmc ---------------------------------
(* emmc_read() and emmc_write() on a card of three blocks, as many as an   *)
(* address can tell apart here.                                            *)
EXTENDS Emmc

\* An empty file, one of more blocks than the card has and one with a rest.
MCFileSizes == {<<0, FALSE>>, <<4, FALSE>>, <<1, TRUE>>}

===============================================================================
