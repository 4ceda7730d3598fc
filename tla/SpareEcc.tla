-------------------------------- MODULE SpareEcc --------------------------------
(***************************************************************************)
(* fixECC and fixSpare_ECC (Flasher.cpp): the spare bytes of a page.       *)
(*                                                                         *)
(* A raw page is the bits of its data, of its spare bytes and of the error *)
(* correction code, in the order in which fixECC takes them.  The word val *)
(* is the set of its bits that are 1, so that ^ is the symmetric           *)
(* difference.  A byte of the spare is one bit here: the block number is   *)
(* spread over two of them, 7 stands for the bytes the code leaves alone   *)
(* and 8 for the bits of byte 0xC that come before the code.               *)
(***************************************************************************)
EXTENDS Integers, FiniteSetsExt

CONSTANTS
  DataBits,             \* bits of data in a page, 0x1000
  Degree,               \* bits of the code, 26
  Feedback              \* bits of the constant 0x6954559

ASSUME EccAssumption ==
  /\ DataBits \in Nat \ {0} /\ Degree \in Nat \ {0}
  /\ Feedback \subseteq 0 .. Degree /\ {0, Degree} \subseteq Feedback

SpareBytes == 9
Covered    == DataBits + SpareBytes
PageBits   == 0 .. (Covered + Degree - 1)
Spare(b)   == DataBits + b
FreeByte   == 7
CodeByte   == 8

(* One round of the loop: a bit of ~page into bit 0, then a shift with     *)
(* feedback.                                                               *)
Step(val, bit) ==
  LET fed == IF bit = 0 THEN SymDiff(val, {0}) ELSE val
  IN  {k - 1 : k \in (IF 0 \in fed THEN SymDiff(fed, Feedback) ELSE fed)}

(* The code is ~val.  It is stored as whole bytes, and the bits before it  *)
(* in the first of them become 0, although they went into val as they were.*)
fixECC(page) ==
  LET val[i \in 0 .. Covered] == IF i = 0 THEN {} ELSE Step(val[i - 1], page[i - 1])
  IN  [i \in PageBits |->
         CASE i = Spare(CodeByte) -> 0
           [] i < Spare(CodeByte) -> page[i]
           [] OTHER               -> IF i - Covered \in val[Covered] THEN 0 ELSE 1]

(* Where a small-block and a large-block NAND keep the number of the erase *)
(* block, low byte first, and the byte that is 0xFF in a good block.  The  *)
(* four bytes of the version are 0.                                        *)
NumberBytes(large) == IF large THEN <<1, 2>> ELSE <<0, 1>>
GoodByte(large)    == IF large THEN 0 ELSE 5
VersionBytes(large) == IF large THEN {3, 4, 5, 6} ELSE {2, 3, 4, 6}

BlockNumber(page, large) ==
  page[Spare(NumberBytes(large)[1])] + 2 * page[Spare(NumberBytes(large)[2])]

Marked(page, number, large) ==
  [i \in PageBits |->
    CASE i = Spare(NumberBytes(large)[1])               -> number % 2
      [] i = Spare(NumberBytes(large)[2])               -> (number \div 2) % 2
      [] i = Spare(GoodByte(large))                     -> 1
      [] i \in {Spare(b) : b \in VersionBytes(large)}   -> 0
      [] OTHER                                          -> page[i]]

fixSpare_ECC_KeepsCode(page, number, large) == fixECC(Marked(page, number, large))

(* The four bytes of the code are cleared before it is computed.           *)
fixSpare_ECC(page, number, large) ==
  fixECC([i \in PageBits |-> IF i < Spare(CodeByte) THEN Marked(page, number, large)[i] ELSE 0])

-------------------------------------------------------------------------------
(* What the code is for.  The page, complemented, is a polynomial over the *)
(* field of two elements, first bit first; the constant is the generator,  *)
(* written backwards.  A page is right when the generator divides it.      *)

Generator == {Degree - k : k \in Feedback}

Times(p, q) ==
  {e \in 0 .. (Covered + Degree) :
     Cardinality({t \in p \X q : t[1] + t[2] = e}) % 2 = 1}

CodeWords == {Times(Generator, q) : q \in SUBSET (0 .. (Covered - 1))}

IsCodeWord(page) ==
  {Covered + Degree - 1 - i : i \in {j \in PageBits : page[j] = 0}} \in CodeWords

===============================================================================
